---- MODULE Spec2Model ----
(***************************************************************************)
(* Verification model of the YoutubeTranscript repository: the polling    *)
(* loops of the Bright Data callers, the transcript retrieval functions    *)
(* (structured library call, yt-dlp subtitle fallback), the transcript     *)
(* normaliser, the subtitle parser and the retry backoff.                  *)
(*                                                                         *)
(* Encoding conventions                                                    *)
(*   - Python None is the integer NULL; every cue field is an integer      *)
(*     (texts and speakers are small ids, times are milliseconds).         *)
(*   - A response body is a sequence of lines; a line is a record that     *)
(*     says what json.loads makes of it.                                   *)
(*   - Each program has its own variables; a specification runs one        *)
(*     program and leaves the variables of the others idle.                *)
(***************************************************************************)
EXTENDS Integers, Sequences, FiniteSets, TLC

\* ------------------------------------------------------------------------
\* Bounds of the model
\* ------------------------------------------------------------------------
MaxWaitMinutes == 3
MaxLines == 2
MaxRec == 2
MaxCues == 2
MaxBlocks == 2
MaxTexts == 2
MaxRetries == 4
MaxAttempt == 7
JitterSteps == 4
MaxSegs == 3
MaxParams == 2
MaxMillis == 1200
MaxItems == 3
MaxRows == 3
MaxClock == 2
MaxInvocations == 3

\* Python None
NULL == -1000000

Min(a, b) == IF a <= b THEN a ELSE b
Max(a, b) == IF a >= b THEN a ELSE b

RECURSIVE Pow2(_)
Pow2(n) == IF n = 0 THEN 1 ELSE 2 * Pow2(n - 1)

RECURSIVE SelectSeqOf(_, _)
\* the subsequence of s whose elements are in the set S, in order
SelectSeqOf(s, S) ==
    IF s = <<>> THEN <<>>
    ELSE IF Head(s) \in S THEN <<Head(s)>> \o SelectSeqOf(Tail(s), S)
         ELSE SelectSeqOf(Tail(s), S)

\* ------------------------------------------------------------------------
\* Response bodies of the remote transcription service
\* ------------------------------------------------------------------------
Statuses == {"ready", "failed", "error", "cancelled", "running", "absent"}

Line(t, status, hasData, sid, id) ==
    [t |-> t, status |-> status, hasData |-> hasData, sid |-> sid, id |-> id]

BlankLine == Line("blank", "absent", FALSE, FALSE, 0)
GarbageLine == Line("garbage", "absent", FALSE, FALSE, 0)
ScalarLine == Line("scalar", "absent", FALSE, FALSE, 0)
ListLine == Line("list", "absent", FALSE, FALSE, 0)
\* a JSON object that reports a job status (and perhaps carries a data key)
StatusDoc(s, d) == Line("dict", s, d, FALSE, 0)
\* a JSON object that is one result record
Rec(i) == Line("dict", "absent", FALSE, FALSE, i)
\* a JSON object that announces a snapshot id
SnapDoc == Line("dict", "running", FALSE, TRUE, 0)

Lines ==
    {BlankLine, GarbageLine, ScalarLine, ListLine, SnapDoc, StatusDoc("ready", TRUE)}
    \cup {StatusDoc(s, FALSE) : s \in Statuses \ {"absent"}}
    \cup {Rec(i) : i \in 1..MaxRec}

ParseableLines == {l \in Lines : l.t \notin {"blank", "garbage"}}

Bodies == UNION {[1..n -> Lines] : n \in 1..MaxLines}

\* the non-blank lines of a body
NonBlank(body) == SelectSeqOf(body, Lines \ {BlankLine})

\* json.loads(response_text) succeeds iff the text is one JSON document
JsonLoadsOk(body) == Len(NonBlank(body)) = 1 /\ NonBlank(body)[1].t # "garbage"
JsonLoads(body) == NonBlank(body)[1]

\* the line-by-line parse: every line that json.loads accepts, in order
ParseLines(body) == SelectSeqOf(body, ParseableLines)

\* a service response: the request raised, or a body came back
Responses == {[exc |-> TRUE, body |-> <<>>]} \cup {[exc |-> FALSE, body |-> b] : b \in Bodies}

\* what a poller or caller returns: success flag, kind of payload, payload
Ret(ok, kind, items) == [ok |-> ok, kind |-> kind, items |-> items]
NoRet == Ret(FALSE, "none", <<>>)

\* ------------------------------------------------------------------------
\* Cues and the transcript objects the retrieval library hands back
\* ------------------------------------------------------------------------
Keys == {"text", "start", "duration", "speaker", "confidence"}

\* dict.get(k) / getattr(it, k, None)
Get(d, k) == IF k \in DOMAIN d THEN d[k] ELSE NULL

\* a cue carrying all five keys
Cue(text, start, duration, speaker, confidence) ==
    [text |-> text, start |-> start, duration |-> duration, speaker |-> speaker, confidence |-> confidence]

\* records of a raw transcript: mappings or attribute objects with some fields
RawItemA == [text |-> 1, start |-> 0, duration |-> 2000]
RawItemB == [text |-> 2, start |-> 2000]
RawItemC == [text |-> 3, start |-> 3000, duration |-> 500, speaker |-> 7, confidence |-> 90]
RawItems == {RawItemA, RawItemB, RawItemC}

\* the result of probing one accessor name of an object
AccessorNames == <<"fetch", "list", "to_list", "as_list", "get_transcript">>

\* an object: a list/tuple ("list"), another iterable ("iter", iterating it
\* gives items) or a value that cannot be iterated ("opaque"); acc gives,
\* for each accessor name in probing order, whether the attribute is
\* absent, raises when called, or yields a value
Obj(kind, items, acc) == [kind |-> kind, items |-> items, acc |-> acc]
NoneObj == Obj("opaque", <<>>, <<>>)
Absent == [st |-> "absent", val |-> NoneObj]
Raises == [st |-> "raises", val |-> NoneObj]
Yields(o) == [st |-> "value", val |-> o]
NoAccessors == [i \in 1..Len(AccessorNames) |-> Absent]

\* a list and a plain iterable have none of the accessor attributes
ListObj(items) == Obj("list", items, <<>>)
IterObj(items) == Obj("iter", items, <<>>)

\* what normalize_transcript_obj does: return cues or raise RuntimeError
NormOk(cues) == [ok |-> TRUE, cues |-> cues]
NormRaise == [ok |-> FALSE, cues |-> <<>>]

to_item_dict_threeFields(it) ==
    [k \in Keys |-> IF k \in {"text", "start", "duration"} THEN Get(it, k) ELSE NULL]

\* to_item_dict: copy the five fields, None for each that is missing
to_item_dict(it) == [k \in Keys |-> Get(it, k)]

\* to_item_dict of download_transcript_json: speaker and confidence are None
to_item_dict_json(it) ==
    [k \in Keys |-> IF k \in {"speaker", "confidence"} THEN NULL ELSE Get(it, k)]

MapItems(items) == [i \in 1..Len(items) |-> to_item_dict(items[i])]

RECURSIVE normalize_transcript_obj(_), ProbeAccessors(_, _)

\* the loop over the accessor names, from position i on: the first accessor
\* that is present and whose result normalizes without raising is returned
ProbeAccessors(obj, i) ==
    IF i > Len(obj.acc) THEN NormRaise
    ELSE IF obj.acc[i].st = "value" /\ normalize_transcript_obj(obj.acc[i].val).ok
    THEN normalize_transcript_obj(obj.acc[i].val)
    ELSE ProbeAccessors(obj, i + 1)

normalize_transcript_obj(obj) ==
    IF obj.kind = "list" THEN NormOk(MapItems(obj.items))
    ELSE IF obj.kind = "iter" /\ obj.items # <<>> THEN NormOk(MapItems(obj.items))
    ELSE ProbeAccessors(obj, 1)

\* ------------------------------------------------------------------------
\* Subtitle files and the parser of yt_dlp_subtitle_fallback
\* (download_transcript_formats, download_transcript_formats_batch and
\* flask_transcript_api share this code)
\* ------------------------------------------------------------------------
\* A subtitle file is a sequence of blocks separated by blank lines.  A block
\* is a WebVTT cue (timing line with '.' before the milliseconds), an SRT cue
\* (index line, timing line with ','), or plain text.  Times are the values
\* the timing line spells, in milliseconds.
Block(kind, startMs, endMs, text) == [kind |-> kind, startMs |-> startMs, endMs |-> endMs, text |-> text]

TimeValues == {0, 1500, 3000}
Texts == 1..MaxTexts

Blocks ==
    {Block(k, a, b, t) : k \in {"vtt", "srt"}, a \in TimeValues, b \in TimeValues, t \in Texts}
    \cup {Block("text", NULL, NULL, t) : t \in Texts}

SubtitleFiles == UNION {[1..n -> Blocks] : n \in 0..MaxBlocks}

RECURSIVE BlocksOfKind(_, _)
\* the blocks a pattern matches (finditer), in file order
BlocksOfKind(data, kind) ==
    IF data = <<>> THEN <<>>
    ELSE IF Head(data).kind = kind THEN <<Head(data)>> \o BlocksOfKind(Tail(data), kind)
         ELSE BlocksOfKind(Tail(data), kind)

\* start = to_secs(start_ts); duration = round(to_secs(end_ts) - start, 3).
\* The pattern admits only digit groups, so to_secs cannot raise and the
\* except branch (start = duration = None) is never taken.
TimedCue(b) == Cue(b.text, b.startMs, b.endMs - b.startMs, NULL, NULL)

TextCue(b) == Cue(b.text, NULL, NULL, NULL, NULL)

\* The parser of download_transcript_json.  Its VTT pattern ends in \\n\\n,
\* so the last block of a file that does not end in a blank line is not
\* matched; entries get the keys text, start and duration only; the
\* text-only entries get the key text only.
JsonTimedEntry(b) == [text |-> b.text, start |-> b.startMs, duration |-> b.endMs - b.startMs]
JsonTextEntry(b) == [text |-> b.text]

ParseSubtitlesJson(data, endsBlank) ==
    LET matchable == IF endsBlank \/ data = <<>> THEN data ELSE SubSeq(data, 1, Len(data) - 1)
        vtt == BlocksOfKind(matchable, "vtt")
        srt == BlocksOfKind(data, "srt")
    IN  IF vtt # <<>> THEN [i \in 1..Len(vtt) |-> JsonTimedEntry(vtt[i])]
        ELSE IF srt # <<>> THEN [i \in 1..Len(srt) |-> JsonTimedEntry(srt[i])]
        ELSE [i \in 1..Len(data) |-> JsonTextEntry(data[i])]

\* the subtitle files a download leaves for the retrieval programs
FallbackFiles ==
    {<<Block("vtt", 0, 1500, 1)>>, <<Block("srt", 1500, 3000, 2), Block("srt", 3000, 1500, 1)>>,
     <<Block("text", NULL, NULL, 1)>>}

ParseSubtitles_mixed(data) ==
    LET vtt == BlocksOfKind(data, "vtt")
        srt == BlocksOfKind(data, "srt")
    IN  IF vtt # <<>> \/ srt # <<>>
        THEN [i \in 1..Len(vtt) |-> TimedCue(vtt[i])] \o [i \in 1..Len(srt) |-> TimedCue(srt[i])]
        ELSE [i \in 1..Len(data) |-> TextCue(data[i])]

\* the parsing part of yt_dlp_subtitle_fallback: the VTT matches if any, else
\* the SRT matches if any, else one text-only cue per block; <<>> is None
ParseSubtitles(data) ==
    LET vtt == BlocksOfKind(data, "vtt")
        srt == BlocksOfKind(data, "srt")
    IN  IF vtt # <<>> THEN [i \in 1..Len(vtt) |-> TimedCue(vtt[i])]
        ELSE IF srt # <<>> THEN [i \in 1..Len(srt) |-> TimedCue(srt[i])]
        ELSE [i \in 1..Len(data) |-> TextCue(data[i])]

\* ------------------------------------------------------------------------
\* Outcomes of the retrieval library and of the subtitle download
\* ------------------------------------------------------------------------
\* An exception, by where it was raised and by what its lower-cased message
\* contains: "429" or "too many requests" (r429); "transcript" and
\* "disabled", or "no transcript" (unavail); "http error", "request" or
\* "blocked" (net)
Err(src, r429, unavail, net) == [src |-> src, r429 |-> r429, unavail |-> unavail, net |-> net]
NoErr == Err("none", FALSE, FALSE, FALSE)
ImportErr == Err("import", FALSE, FALSE, FALSE)
TypeErr == Err("typeerror", FALSE, FALSE, FALSE)
\* RuntimeError("Unable to normalize transcript object returned by library.")
NormErr == Err("normalize", FALSE, FALSE, FALSE)
FallbackErr == Err("fallback", FALSE, FALSE, FALSE)
\* RuntimeError("Failed to download transcript")
FailedErr == Err("failed", FALSE, FALSE, FALSE)
\* ValueError("Could not extract video id from URL: ...")
InvalidUrlErr == Err("invalid_url", FALSE, FALSE, FALSE)
LibErrs == {Err("lib", a, b, c) : a \in BOOLEAN, b \in BOOLEAN, c \in BOOLEAN}

\* the outcome of one call into the library: a raw transcript object, an
\* exception, or the TypeError of an unsupported languages= argument
Returns(raw) == [t |-> "return", raw |-> raw, err |-> NoErr]
Throws(e) == [t |-> "raise", raw |-> NoneObj, err |-> e]
ThrowsTypeError == [t |-> "typeerror", raw |-> NoneObj, err |-> TypeErr]

RawObjs == {ListObj(<<>>), ListObj(<<RawItemA>>), ListObj(<<RawItemC, RawItemB>>), NoneObj}
CallOutcomes == {Returns(r) : r \in RawObjs} \cup {Throws(e) : e \in LibErrs} \cup {ThrowsTypeError}

\* outside an except TypeError clause a TypeError is an exception like any other
AsException(o) == IF o.t = "typeerror" THEN Throws(TypeErr) ELSE o

\* the outcome of yt_dlp_subtitle_fallback: it raised, or it parsed the
\* file it found (no file: None)
FallbackOutcomes ==
    {[t |-> "raise", cues |-> <<>>], [t |-> "return", cues |-> <<>>]}
    \cup {[t |-> "return", cues |-> ParseSubtitles(d)] : d \in FallbackFiles}

\* the branch of the except clause of flask download_transcript
Classify(e) ==
    IF e.r429 THEN "rate_limit"
    ELSE IF e.unavail THEN "unavailable"
    ELSE IF e.net THEN "network"
    ELSE "other"

\* what download_transcript returns or raises
Result(kind, cues, err) == [kind |-> kind, cues |-> cues, err |-> err]
NoResult == Result("none", <<>>, NoErr)

\* RuntimeError("Failed to retrieve transcript. Last error: ...")
RetrievalErr == Err("retrieval_failure", FALSE, FALSE, FALSE)

\* how a structured retrieval ended: items, or the exception
Structured(ok, items, err) == [ok |-> ok, items |-> items, err |-> err]
NoStructured == Structured(FALSE, <<>>, NoErr)

\* how the subtitle fallback ended
Fallback(t, cues) == [t |-> t, cues |-> cues]
FallbackNotCalled == Fallback("not_called", <<>>)

VARIABLES
    pur_pc,        \* poll_until_ready: "idle", "polling", "done"
    pur_maxWait,   \* max_wait_minutes
    pur_attempt,   \* attempt
    pur_requests,  \* number of requests.get calls issued
    pur_sleeps,    \* number of time.sleep(30) calls
    pur_lastStatus,\* status seen by the last iteration ("none" before any)
    pur_ret        \* the returned (success, data_or_error)

purVars == <<pur_pc, pur_maxWait, pur_attempt, pur_requests, pur_sleeps, pur_lastStatus, pur_ret>>

VARIABLES
    ps_pc,         \* poll_snapshot: "idle", "polling", "done"
    ps_attempt,    \* attempt
    ps_requests,   \* number of requests.get calls issued
    ps_sleeps,     \* number of time.sleep(30) calls
    ps_lastStatus, \* status seen by the last iteration ("none" before any)
    ps_code        \* HTTP status code of the response returned (0: none yet)

psVars == <<ps_pc, ps_attempt, ps_requests, ps_sleeps, ps_lastStatus, ps_code>>

VARIABLES
    tc_pc,          \* transcribe_channel: "idle", "start", "done"
    tc_body,        \* the body Bright Data answered with (<<>>: none)
    tc_transcripts, \* the "transcripts" member of the JSON answer
    tc_count,       \* the "count" member of the JSON answer
    tc_code         \* HTTP status code of the answer (0: none yet)

tcVars == <<tc_pc, tc_body, tc_transcripts, tc_count, tc_code>>

VARIABLES
    nz_pc,   \* normalize_transcript_obj: "idle", "call", "done"
    nz_obj,  \* the argument
    nz_res   \* the outcome: the cues returned, or the RuntimeError raised

nzVars == <<nz_pc, nz_obj, nz_res>>

VARIABLES
    sp_pc,    \* subtitle parser: "idle", "call", "done"
    sp_data,  \* the subtitle file read
    sp_cues   \* the cues returned (<<>>: None)

spVars == <<sp_pc, sp_data, sp_cues>>

VARIABLES
    fl_pc,           \* flask download_transcript: "idle", "loop", "after", "done"
    fl_maxRetries,   \* max_retries
    fl_libInstalled, \* whether youtube_transcript_api can be imported
    fl_hasStatic,    \* hasattr(YouTubeTranscriptApi, "get_transcript")
    fl_attempt,      \* the value attempt takes in the next iteration
    fl_calls,        \* the retrieval calls made so far, in order
    fl_events,       \* per iteration: how the structured retrieval ended
    fl_sleeps,       \* the attempt numbers maybe_sleep_backoff was called with
    fl_lastError,    \* last_error
    fl_result        \* what the function returned or raised

flVars == <<fl_pc, fl_maxRetries, fl_libInstalled, fl_hasStatic, fl_attempt, fl_calls,
            fl_events, fl_sleeps, fl_lastError, fl_result>>

VARIABLES
    bk_pc,       \* maybe_sleep_backoff: "idle", "call", "done"
    bk_attempt,  \* attempt
    bk_jitter,   \* the draw of random.uniform, in steps of 1/JitterSteps of the range
    bk_sleep     \* sleep_for, in milliseconds

bkVars == <<bk_pc, bk_attempt, bk_jitter, bk_sleep>>

VARIABLES
    fd_pc,           \* download_transcript_formats.download_transcript: "idle", "call", "done"
    fd_urlValid,     \* whether extract_video_id(url) succeeds
    fd_libInstalled, \* whether youtube_transcript_api can be imported
    fd_hasStatic,    \* hasattr(YouTubeTranscriptApi, "get_transcript")
    fd_calls,        \* the retrieval calls made, in order
    fd_structured,   \* how the structured retrieval ended
    fd_fallback,     \* how yt_dlp_subtitle_fallback ended
    fd_fetchError,   \* fetch_error
    fd_result        \* what the function returned or raised

fdVars == <<fd_pc, fd_urlValid, fd_libInstalled, fd_hasStatic, fd_calls, fd_structured,
            fd_fallback, fd_fetchError, fd_result>>

VARIABLES
    jd_pc,           \* download_transcript_json.download_transcript: "idle", "call", "done"
    jd_urlValid,     \* whether extract_video_id(url) succeeds
    jd_libInstalled, \* whether youtube_transcript_api can be imported
    jd_hasStatic,    \* hasattr(YouTubeTranscriptApi, "get_transcript")
    jd_preferLang,   \* whether prefer_lang is given
    jd_fmt,          \* fmt
    jd_calls,        \* the retrieval calls made, in order
    jd_items,        \* the items handed to save_output (<<>>: save_output not reached)
    jd_result        \* "none", "saved" or "raise"

jdVars == <<jd_pc, jd_urlValid, jd_libInstalled, jd_hasStatic, jd_preferLang, jd_fmt,
            jd_calls, jd_items, jd_result>>

VARIABLES
    ev_pc,            \* extract_video_id: "idle", "call", "done"
    ev_url,           \* the URL as urlparse splits it: path segments and query parameters
    ev_res            \* the id returned, or the ValueError raised

evVars == <<ev_pc, ev_url, ev_res>>

VARIABLES
    ts_pc,            \* timestamp formatting: "idle", "call", "done"
    ts_ms,            \* the time to format, in milliseconds
    ts_srt,           \* what secs_to_srt_timestamp returns
    ts_vtt            \* what secs_to_vtt_timestamp returns

tsVars == <<ts_pc, ts_ms, ts_srt, ts_vtt>>

VARIABLES
    wr_pc,            \* the format writers: "idle", "call", "written", "read"
    wr_items,         \* the cue sequence given to the writer
    wr_fmt,           \* the writer that ran: "none" or a format name
    wr_timing,        \* per cue: start, the result of compute_end, and the end written
    wr_out,           \* the file written: its lines, or the items of a JSON file
    wr_back           \* the cues the corresponding reader gets from the file

wrVars == <<wr_pc, wr_items, wr_fmt, wr_timing, wr_out, wr_back>>

VARIABLES
    so_pc,            \* save_output and process_row: "idle", "call", "done"
    so_fn,            \* the function called: "none", "formats.save_output", "batch.save_output", "json.save_output", "process_row"
    so_fmt,           \* the format name given
    so_path,          \* the custom path or output file name given, with name "" for none
    so_dl,            \* what download_transcript does when called: "cues" or "raise"
    so_fetched,       \* whether download_transcript was called
    so_files,         \* the files written
    so_result         \* "none", "path", "ValueError", "ok", "not_ok"

soVars == <<so_pc, so_fn, so_fmt, so_path, so_dl, so_fetched, so_files, so_result>>

VARIABLES
    rb_pc,            \* run_batch: "idle", "rows", "done", "raised"
    rb_rows,          \* the rows of the CSV file
    rb_next,          \* the position of the row the loop takes next
    rb_results,       \* results
    rb_log,           \* the fetches and writes made, each with the position of its row
    rb_ok,            \* OK count printed after the batch
    rb_err            \* ERR count printed after the batch

rbVars == <<rb_pc, rb_rows, rb_next, rb_results, rb_log, rb_ok, rb_err>>

VARIABLES
    cb_pc,            \* call_brightdata_and_poll: "idle", "call", "done"
    cb_resp,          \* the response to the submit request
    cb_polled,        \* whether poll_until_ready was called
    cb_ret            \* the returned (success, data_or_error, snapshot_id)

cbVars == <<cb_pc, cb_resp, cb_polled, cb_ret>>

VARIABLES
    cq_pc,            \* per request of the Flask API: "idle", "start", "made", "written", "zipped", "done", "failed"
    cq_kind,          \* per request: "batch", "playlist" or "channel"
    cq_id,            \* per request: the int(time.time()) of its directory and zip names
    cq_clock,         \* the clock, in seconds
    cq_dirs,          \* the output directories that exist
    cq_files,         \* the files in the output directories, each with the request that wrote it
    cq_zips,          \* the zip files: name, the request that made it, the files in it
    cq_removed        \* the files each request removed

cqVars == <<cq_pc, cq_kind, cq_id, cq_clock, cq_dirs, cq_files, cq_zips, cq_removed>>

VARIABLES
    yf_n,             \* the number of invocations of yt_dlp_subtitle_fallback so far (-1: none modelled)
    yf_files,         \* the subtitle files in the working directory, each with the invocation that wrote it
    yf_req,           \* the video id and language of the last invocation
    yf_parsed         \* the files the last invocation parsed (none or one)

yfVars == <<yf_n, yf_files, yf_req, yf_parsed>>

vars == <<purVars, psVars, tcVars, nzVars, spVars, flVars, bkVars, fdVars, jdVars, evVars, tsVars, wrVars, soVars, rbVars, cbVars, cqVars, yfVars>>

notPur == <<psVars, tcVars, nzVars, spVars, flVars, bkVars, fdVars, jdVars, evVars, tsVars, wrVars, soVars, rbVars, cbVars, cqVars, yfVars>>
notPs == <<purVars, tcVars, nzVars, spVars, flVars, bkVars, fdVars, jdVars, evVars, tsVars, wrVars, soVars, rbVars, cbVars, cqVars, yfVars>>
notTc == <<purVars, psVars, nzVars, spVars, flVars, bkVars, fdVars, jdVars, evVars, tsVars, wrVars, soVars, rbVars, cbVars, cqVars, yfVars>>
notNz == <<purVars, psVars, tcVars, spVars, flVars, bkVars, fdVars, jdVars, evVars, tsVars, wrVars, soVars, rbVars, cbVars, cqVars, yfVars>>
notSp == <<purVars, psVars, tcVars, nzVars, flVars, bkVars, fdVars, jdVars, evVars, tsVars, wrVars, soVars, rbVars, cbVars, cqVars, yfVars>>
notFl == <<purVars, psVars, tcVars, nzVars, spVars, bkVars, fdVars, jdVars, evVars, tsVars, wrVars, soVars, rbVars, cbVars, cqVars, yfVars>>
notBk == <<purVars, psVars, tcVars, nzVars, spVars, flVars, fdVars, jdVars, evVars, tsVars, wrVars, soVars, rbVars, cbVars, cqVars, yfVars>>
notFd == <<purVars, psVars, tcVars, nzVars, spVars, flVars, bkVars, jdVars, evVars, tsVars, wrVars, soVars, rbVars, cbVars, cqVars, yfVars>>
notJd == <<purVars, psVars, tcVars, nzVars, spVars, flVars, bkVars, fdVars, evVars, tsVars, wrVars, soVars, rbVars, cbVars, cqVars, yfVars>>
notEv == <<purVars, psVars, tcVars, nzVars, spVars, flVars, bkVars, fdVars, jdVars, tsVars, wrVars, soVars, rbVars, cbVars, cqVars, yfVars>>
notTs == <<purVars, psVars, tcVars, nzVars, spVars, flVars, bkVars, fdVars, jdVars, evVars, wrVars, soVars, rbVars, cbVars, cqVars, yfVars>>
notWr == <<purVars, psVars, tcVars, nzVars, spVars, flVars, bkVars, fdVars, jdVars, evVars, tsVars, soVars, rbVars, cbVars, cqVars, yfVars>>
notSo == <<purVars, psVars, tcVars, nzVars, spVars, flVars, bkVars, fdVars, jdVars, evVars, tsVars, wrVars, rbVars, cbVars, cqVars, yfVars>>
notRb == <<purVars, psVars, tcVars, nzVars, spVars, flVars, bkVars, fdVars, jdVars, evVars, tsVars, wrVars, soVars, cbVars, cqVars, yfVars>>
notCb == <<purVars, psVars, tcVars, nzVars, spVars, flVars, bkVars, fdVars, jdVars, evVars, tsVars, wrVars, soVars, rbVars, cqVars, yfVars>>
notCq == <<purVars, psVars, tcVars, nzVars, spVars, flVars, bkVars, fdVars, jdVars, evVars, tsVars, wrVars, soVars, rbVars, cbVars, yfVars>>
notYf == <<purVars, psVars, tcVars, nzVars, spVars, flVars, bkVars, fdVars, jdVars, evVars, tsVars, wrVars, soVars, rbVars, cbVars, cqVars>>

\* ------------------------------------------------------------------------
\* Initial states: the program a specification runs starts at its entry,
\* the variables of every other program stay idle
\* ------------------------------------------------------------------------
PurIdle ==
    /\ pur_pc = "idle" /\ pur_maxWait = 0 /\ pur_attempt = 0 /\ pur_requests = 0
    /\ pur_sleeps = 0 /\ pur_lastStatus = "none" /\ pur_ret = NoRet

PsIdle ==
    /\ ps_pc = "idle" /\ ps_attempt = 0 /\ ps_requests = 0 /\ ps_sleeps = 0
    /\ ps_lastStatus = "none" /\ ps_code = 0

TcIdle ==
    /\ tc_pc = "idle" /\ tc_body = <<>> /\ tc_transcripts = <<>> /\ tc_count = 0
    /\ tc_code = 0

NzIdle == nz_pc = "idle" /\ nz_obj = NoneObj /\ nz_res = NormRaise

SpIdle == sp_pc = "idle" /\ sp_data = <<>> /\ sp_cues = <<>>

FlIdle ==
    /\ fl_pc = "idle" /\ fl_maxRetries = 0 /\ fl_libInstalled = FALSE /\ fl_hasStatic = FALSE
    /\ fl_attempt = 0 /\ fl_calls = <<>> /\ fl_events = <<>> /\ fl_sleeps = <<>>
    /\ fl_lastError = NoErr /\ fl_result = NoResult

BkIdle == bk_pc = "idle" /\ bk_attempt = 0 /\ bk_jitter = 0 /\ bk_sleep = 0

FdIdle ==
    /\ fd_pc = "idle" /\ fd_urlValid = FALSE /\ fd_libInstalled = FALSE /\ fd_hasStatic = FALSE
    /\ fd_calls = <<>> /\ fd_structured = NoStructured /\ fd_fallback = FallbackNotCalled
    /\ fd_fetchError = NoErr /\ fd_result = NoResult

JdIdle ==
    /\ jd_pc = "idle" /\ jd_urlValid = FALSE /\ jd_libInstalled = FALSE /\ jd_hasStatic = FALSE
    /\ jd_preferLang = FALSE /\ jd_fmt = "txt" /\ jd_calls = <<>> /\ jd_items = <<>>
    /\ jd_result = "none"

EvIdle ==
    ev_pc = "idle" /\ ev_url = [segs |-> <<>>, query |-> <<>>] /\ ev_res = [ok |-> FALSE, id |-> <<>>]

TsIdle ==
    ts_pc = "idle" /\ ts_ms = 0 /\ ts_srt = [hh |-> 0, mm |-> 0, ss |-> 0, ms |-> 0, sep |-> ","]
    /\ ts_vtt = [hh |-> 0, mm |-> 0, ss |-> 0, ms |-> 0, sep |-> "."]

WrIdle ==
    /\ wr_pc = "idle" /\ wr_items = <<>> /\ wr_fmt = "none" /\ wr_timing = <<>>
    /\ wr_out = [lines |-> <<>>, items |-> <<>>, rows |-> <<>>] /\ wr_back = <<>>

SoIdle ==
    /\ so_pc = "idle" /\ so_fn = "none" /\ so_fmt = <<>> /\ so_path = [name |-> "", ext |-> <<>>] /\ so_dl = "cues"
    /\ so_fetched = FALSE /\ so_files = {} /\ so_result = "none"

RbIdle ==
    /\ rb_pc = "idle" /\ rb_rows = <<>> /\ rb_next = 0 /\ rb_results = <<>> /\ rb_log = <<>>
    /\ rb_ok = 0 /\ rb_err = 0

CbIdle ==
    /\ cb_pc = "idle" /\ cb_resp = [exc |-> TRUE, body |-> <<>>] /\ cb_polled = FALSE
    /\ cb_ret = [ok |-> FALSE, kind |-> "none", sid |-> FALSE]

CqIdle ==
    /\ cq_pc = <<>> /\ cq_kind = <<>> /\ cq_id = <<>> /\ cq_clock = 0
    /\ cq_dirs = {} /\ cq_files = {} /\ cq_zips = {} /\ cq_removed = {}

YfIdle ==
    /\ yf_n = 0 - 1 /\ yf_files = {} /\ yf_req = [vid |-> 0, lang |-> "none"] /\ yf_parsed = {}

\* every program but m is idle
IdleExcept(m) ==
    /\ IF m = "pur" THEN TRUE ELSE PurIdle
    /\ IF m = "ps" THEN TRUE ELSE PsIdle
    /\ IF m = "tc" THEN TRUE ELSE TcIdle
    /\ IF m = "nz" THEN TRUE ELSE NzIdle
    /\ IF m = "sp" THEN TRUE ELSE SpIdle
    /\ IF m = "fl" THEN TRUE ELSE FlIdle
    /\ IF m = "bk" THEN TRUE ELSE BkIdle
    /\ IF m = "fd" THEN TRUE ELSE FdIdle
    /\ IF m = "jd" THEN TRUE ELSE JdIdle
    /\ IF m = "ev" THEN TRUE ELSE EvIdle
    /\ IF m = "ts" THEN TRUE ELSE TsIdle
    /\ IF m = "wr" THEN TRUE ELSE WrIdle
    /\ IF m = "so" THEN TRUE ELSE SoIdle
    /\ IF m = "rb" THEN TRUE ELSE RbIdle
    /\ IF m = "cb" THEN TRUE ELSE CbIdle
    /\ IF m = "cq" THEN TRUE ELSE CqIdle
    /\ IF m = "yf" THEN TRUE ELSE YfIdle

PurInit ==
    /\ pur_pc = "polling" /\ pur_maxWait \in 0..MaxWaitMinutes /\ pur_attempt = 0
    /\ pur_requests = 0 /\ pur_sleeps = 0 /\ pur_lastStatus = "none" /\ pur_ret = NoRet
    /\ IdleExcept("pur")

PsInit ==
    /\ ps_pc = "polling" /\ ps_attempt = 0 /\ ps_requests = 0 /\ ps_sleeps = 0
    /\ ps_lastStatus = "none" /\ ps_code = 0
    /\ IdleExcept("ps")

TcInit ==
    /\ tc_pc = "start" /\ tc_body = <<>> /\ tc_transcripts = <<>> /\ tc_count = 0
    /\ tc_code = 0
    /\ IdleExcept("tc")

\* ------------------------------------------------------------------------
\* simple_api_caller_async_download.poll_until_ready
\* ------------------------------------------------------------------------
max_attempts_off == pur_maxWait * 2 + 1

max_attempts == pur_maxWait * 2

\* the except branch of the loop body: give up on the last attempt, else sleep
PurOnException(att) ==
    IF att >= max_attempts
    THEN /\ pur_pc' = "done" /\ pur_ret' = Ret(FALSE, "exception", <<>>)
         /\ UNCHANGED pur_sleeps
    ELSE /\ pur_sleeps' = pur_sleeps + 1
         /\ UNCHANGED <<pur_pc, pur_ret>>

\* the terminal failure statuses of poll_until_ready
PurFailureStatuses == {"failed", "error", "cancelled"}

\* the branch taken for a parsed status document
PurOnStatus(att, doc) ==
    IF doc.status = "ready"
    THEN /\ pur_pc' = "done"
         /\ pur_ret' = Ret(TRUE, IF doc.hasData THEN "data" ELSE "doc", <<doc>>)
         /\ UNCHANGED pur_sleeps
    ELSE IF doc.status \in PurFailureStatuses
    THEN /\ pur_pc' = "done" /\ pur_ret' = Ret(FALSE, "failed", <<doc>>)
         /\ UNCHANGED pur_sleeps
    ELSE IF att < max_attempts
    THEN /\ pur_sleeps' = pur_sleeps + 1
         /\ UNCHANGED <<pur_pc, pur_ret>>
    ELSE /\ pur_pc' = "done" /\ pur_ret' = Ret(FALSE, "timeout", <<>>)
         /\ UNCHANGED pur_sleeps

\* one iteration of the while loop, for the response the service gives
poll_until_ready_iter(resp) ==
    /\ pur_pc = "polling"
    /\ pur_attempt < max_attempts
    /\ pur_attempt' = pur_attempt + 1
    /\ pur_requests' = pur_requests + 1
    /\ UNCHANGED <<pur_maxWait, notPur>>
    /\ LET att == pur_attempt + 1 IN
       IF resp.exc
       THEN pur_lastStatus' = "exception" /\ PurOnException(att)
       ELSE IF JsonLoadsOk(resp.body)
       THEN LET doc == JsonLoads(resp.body) IN
            IF doc.t = "list"
            THEN /\ pur_lastStatus' = "list" /\ pur_pc' = "done"
                 /\ pur_ret' = Ret(TRUE, "doc", <<doc>>) /\ UNCHANGED pur_sleeps
            ELSE IF doc.t = "dict"
            THEN pur_lastStatus' = doc.status /\ PurOnStatus(att, doc)
            \* a JSON scalar has no .get: AttributeError, caught by the except
            ELSE pur_lastStatus' = "exception" /\ PurOnException(att)
       ELSE LET status_data == ParseLines(resp.body) IN
            IF status_data = <<>>
            THEN /\ pur_lastStatus' = "unparsable" /\ pur_pc' = "done"
                 /\ pur_ret' = Ret(FALSE, "parse", <<>>) /\ UNCHANGED pur_sleeps
            ELSE /\ pur_lastStatus' = "list" /\ pur_pc' = "done"
                 /\ pur_ret' = Ret(TRUE, "lines", status_data) /\ UNCHANGED pur_sleeps

\* the loop condition fails without a return from the body
poll_until_ready_exit ==
    /\ pur_pc = "polling"
    /\ ~(pur_attempt < max_attempts)
    /\ pur_pc' = "done"
    /\ pur_ret' = Ret(FALSE, "timeout", <<>>)
    /\ UNCHANGED <<pur_maxWait, pur_attempt, pur_requests, pur_sleeps, pur_lastStatus, notPur>>

\* ------------------------------------------------------------------------
\* simple_api_caller_with_channel_snapchat.poll_snapshot (GET /poll-snapshot)
\* ------------------------------------------------------------------------
PollSnapshotMaxAttempts == 60

\* the statuses on which poll_snapshot gives up
PsFailureStatuses == {"failed", "error"}

\* one iteration of the while loop; any exception leaves through the outer
\* except and answers 500
poll_snapshot_iter(resp) ==
    /\ ps_pc = "polling"
    /\ ps_attempt < PollSnapshotMaxAttempts
    /\ ps_attempt' = ps_attempt + 1
    /\ ps_requests' = ps_requests + 1
    /\ UNCHANGED notPs
    /\ IF resp.exc \/ ~JsonLoadsOk(resp.body)
       \* requests.get / raise_for_status / .json() raised
       THEN /\ ps_lastStatus' = "exception" /\ ps_pc' = "done" /\ ps_code' = 500
            /\ UNCHANGED ps_sleeps
       ELSE LET status_data == JsonLoads(resp.body) IN
            IF status_data.t # "dict"
            \* a list or a scalar has no .get: AttributeError
            THEN /\ ps_lastStatus' = "exception" /\ ps_pc' = "done" /\ ps_code' = 500
                 /\ UNCHANGED ps_sleeps
            ELSE /\ ps_lastStatus' = status_data.status
                 /\ IF status_data.status = "ready"
                    THEN ps_pc' = "done" /\ ps_code' = 200 /\ UNCHANGED ps_sleeps
                    ELSE IF status_data.status \in PsFailureStatuses
                    THEN ps_pc' = "done" /\ ps_code' = 500 /\ UNCHANGED ps_sleeps
                    ELSE ps_sleeps' = ps_sleeps + 1 /\ UNCHANGED <<ps_pc, ps_code>>

\* max attempts reached: 408
poll_snapshot_exit ==
    /\ ps_pc = "polling"
    /\ ~(ps_attempt < PollSnapshotMaxAttempts)
    /\ ps_pc' = "done"
    /\ ps_code' = 408
    /\ UNCHANGED <<ps_attempt, ps_requests, ps_sleeps, ps_lastStatus, notPs>>

NextSnapshot ==
    \/ \E resp \in Responses : poll_snapshot_iter(resp)
    \/ poll_snapshot_exit

SpecSnapshot == PsInit /\ [][NextSnapshot]_vars

\* C2: a polled job that reports failed, error or cancelled ends the poll at
\* once with a failure result: the iteration that sees the status returns a
\* failure and does not sleep (poll_snapshot).
C2_SnapshotEndsOnFailure ==
    [][(ps_pc = "polling" /\ ps_lastStatus' \in {"failed", "error", "cancelled"})
        => (ps_pc' = "done" /\ ps_code' = 500 /\ ps_sleeps' = ps_sleeps)]_vars

\* C2, poll_until_ready: the same statement holds of this loop
C2_PollUntilReadyEndsOnFailure ==
    [][(pur_pc = "polling" /\ pur_lastStatus' \in {"failed", "error", "cancelled"})
        => (pur_pc' = "done" /\ ~pur_ret'.ok /\ pur_sleeps' = pur_sleeps
            /\ pur_requests' = pur_requests + 1)]_vars

\* ------------------------------------------------------------------------
\* simple_api_caller_with_channel.transcribe_channel (POST /transcribe-channel)
\* ------------------------------------------------------------------------
\* the payload of a JSON array document, and of the data key of an object
ItemsOf(doc) == <<Rec(1)>>

\* "Try to parse first valid line": the first line json.loads accepts
FirstParsedLine(lines) == ParseLines(lines)[1]

\* "Ensure transcripts is a list"
EnsureList(transcripts) ==
    IF transcripts.t = "dict" /\ transcripts.hasData THEN ItemsOf(transcripts)
    ELSE IF transcripts.t # "list" THEN <<transcripts>>
    ELSE ItemsOf(transcripts)

TcAnswer(code, body, transcripts) ==
    /\ tc_pc' = "done" /\ tc_code' = code /\ tc_body' = body
    /\ tc_transcripts' = transcripts /\ tc_count' = Len(transcripts)

\* the whole handler: request check, video extraction, Bright Data call,
\* response parsing
transcribe_channel(hasChannelUrl, extraction, resp) ==
    /\ tc_pc = "start"
    /\ UNCHANGED notTc
    /\ IF ~hasChannelUrl THEN TcAnswer(400, <<>>, <<>>)
       ELSE IF extraction = "raises" THEN TcAnswer(500, <<>>, <<>>)
       ELSE IF extraction = "empty" THEN TcAnswer(404, <<>>, <<>>)
       ELSE IF resp.exc THEN TcAnswer(500, <<>>, <<>>)
       ELSE IF JsonLoadsOk(resp.body)
       THEN TcAnswer(200, resp.body, EnsureList(JsonLoads(resp.body)))
       ELSE IF ParseLines(resp.body) = <<>>
       \* ValueError("Failed to parse Bright Data response")
       THEN TcAnswer(500, resp.body, <<>>)
       ELSE TcAnswer(200, resp.body, EnsureList(FirstParsedLine(resp.body)))

NextChannel ==
    \E hasChannelUrl \in BOOLEAN, extraction \in {"raises", "empty", "urls"}, resp \in Responses :
        transcribe_channel(hasChannelUrl, extraction, resp)

SpecChannel == TcInit /\ [][NextChannel]_vars

\* a body of several lines whose parseable lines are all result records
IsNdjsonRecords(body) ==
    /\ ~JsonLoadsOk(body)
    /\ ParseLines(body) # <<>>
    /\ \A i \in 1..Len(body) : body[i].t \in {"blank", "garbage"} \/ body[i] \in {Rec(k) : k \in 1..MaxRec}

\* C4: a response delivered as newline-delimited JSON records is accepted in
\* full: the answer carries every parseable record, in order, and count is
\* the number of records (transcribe_channel).
C4_ChannelKeepsAllRecords ==
    (tc_pc = "done" /\ IsNdjsonRecords(tc_body)) =>
        (tc_code = 200 /\ tc_transcripts = ParseLines(tc_body)
         /\ tc_count = Len(ParseLines(tc_body)))

\* C4, poll_until_ready: a line-delimited status response is returned whole
C4_PollKeepsAllRecords ==
    [][\A resp \in Responses :
          (poll_until_ready_iter(resp) /\ ~resp.exc /\ IsNdjsonRecords(resp.body))
          => pur_ret' = Ret(TRUE, "lines", ParseLines(resp.body))]_vars

\* ------------------------------------------------------------------------
\* download_transcript_formats.normalize_transcript_obj as a program: called
\* once on an argument
\* ------------------------------------------------------------------------
\* values an accessor can yield: lists, an empty iterable, None, and an
\* object that itself must be probed
NestedObj == Obj("opaque", <<>>, [NoAccessors EXCEPT ![3] = Yields(ListObj(<<RawItemC>>))])
YieldedObjs ==
    {ListObj(<<>>), ListObj(<<RawItemA>>), ListObj(<<RawItemB, RawItemA>>), IterObj(<<>>), NoneObj, NestedObj}
AccessorResults == {Absent, Raises} \cup {Yields(o) : o \in YieldedObjs}

ItemSeqs == UNION {[1..n -> RawItems] : n \in 0..MaxCues}

NormInputs ==
    {ListObj(items) : items \in ItemSeqs}
    \cup {IterObj(items) : items \in ItemSeqs}
    \cup {Obj(k, <<>>, acc) : k \in {"iter", "opaque"},
                               acc \in [1..Len(AccessorNames) -> AccessorResults]}

NzInit ==
    /\ nz_pc = "call" /\ nz_obj \in NormInputs /\ nz_res = NormRaise
    /\ IdleExcept("nz")

normalize_call ==
    /\ nz_pc = "call"
    /\ nz_pc' = "done"
    /\ nz_res' = normalize_transcript_obj(nz_obj)
    /\ UNCHANGED <<nz_obj, notNz>>

NextNorm == normalize_call

SpecNorm == NzInit /\ [][NextNorm]_vars

\* the argument is neither a list/tuple nor an iterable that gives items
IsOpaque(obj) == obj.kind = "opaque" \/ (obj.kind = "iter" /\ obj.items = <<>>)

\* accessor i succeeds and yields a non-empty sequence
Usable(obj, i) ==
    /\ obj.acc[i].st = "value"
    /\ normalize_transcript_obj(obj.acc[i].val).ok
    /\ normalize_transcript_obj(obj.acc[i].val).cues # <<>>

\* C7: on an opaque object the accessors are probed in the order fetch,
\* list, to_list, as_list, get_transcript, and the result is the
\* normalization of the first accessor that succeeds and yields a non-empty
\* sequence; accessors that raise or yield nothing are passed over.
C7_FirstUsableAccessor ==
    (nz_pc = "done" /\ IsOpaque(nz_obj)) =>
        \A i \in 1..Len(nz_obj.acc) :
            (Usable(nz_obj, i) /\ \A j \in 1..(i - 1) : ~Usable(nz_obj, j))
            => nz_res = normalize_transcript_obj(nz_obj.acc[i].val)

\* ------------------------------------------------------------------------
\* The subtitle parser as a program: called once on the text of a file
\* ------------------------------------------------------------------------
SpInit ==
    /\ sp_pc = "call" /\ sp_data \in SubtitleFiles /\ sp_cues = <<>>
    /\ IdleExcept("sp")

parse_subtitles ==
    /\ sp_pc = "call"
    /\ sp_pc' = "done"
    /\ sp_cues' = ParseSubtitles(sp_data)
    /\ UNCHANGED <<sp_data, notSp>>

NextSubs == parse_subtitles

SpecSubs == SpInit /\ [][NextSubs]_vars

\* C5: every cue the subtitle parser produces has a duration that is null
\* or non-negative; a timing line whose end precedes its start gives null.
C5_DurationNullOrNonNegative ==
    sp_pc = "done" =>
        \A i \in 1..Len(sp_cues) : sp_cues[i].duration = NULL \/ sp_cues[i].duration >= 0

\* ------------------------------------------------------------------------
\* flask_transcript_api.download_transcript
\* ------------------------------------------------------------------------
FlInit ==
    /\ fl_pc = "loop" /\ fl_maxRetries \in 0..MaxRetries /\ fl_libInstalled \in BOOLEAN
    /\ fl_hasStatic \in BOOLEAN /\ fl_attempt = 0 /\ fl_calls = <<>> /\ fl_events = <<>>
    /\ fl_sleeps = <<>> /\ fl_lastError = NoErr /\ fl_result = NoResult
    /\ IdleExcept("fl")

\* the library calls of one iteration: the static call when the class has
\* get_transcript, else fetch with languages= and, on TypeError, fetch without
FlLibCalls(o1, o2) ==
    IF fl_hasStatic THEN [calls |-> <<"static">>, out |-> AsException(o1)]
    ELSE IF o1.t = "typeerror"
    THEN [calls |-> <<"fetch_lang", "fetch">>, out |-> AsException(o2)]
    ELSE [calls |-> <<"fetch_lang">>, out |-> o1]

\* the outcome of the inner try: the items normalized, or the exception
FlStructured(o1, o2) ==
    LET lib == FlLibCalls(o1, o2) IN
    IF lib.out.t = "raise" THEN [ok |-> FALSE, items |-> <<>>, err |-> lib.out.err]
    ELSE LET n == normalize_transcript_obj(lib.out.raw) IN
         IF n.ok THEN [ok |-> TRUE, items |-> n.cues, err |-> NoErr]
         ELSE [ok |-> FALSE, items |-> <<>>, err |-> NormErr]

FlEvent(cls, e) == [cls |-> cls, unavail |-> e.unavail]

\* maybe_sleep_backoff(attempt); continue
FlSleepAndContinue ==
    /\ fl_sleeps' = Append(fl_sleeps, fl_attempt)
    /\ fl_attempt' = fl_attempt + 1
    /\ fl_pc' = IF fl_attempt + 1 < fl_maxRetries THEN "loop" ELSE "after"
    /\ UNCHANGED fl_result

\* break
FlBreak == fl_pc' = "after" /\ UNCHANGED <<fl_attempt, fl_sleeps, fl_result>>

\* return
FlReturn(cues) ==
    /\ fl_pc' = "done" /\ fl_result' = Result("cues", cues, NoErr)
    /\ UNCHANGED <<fl_attempt, fl_sleeps>>

\* the part of the loop body after the structured retrieval left no items:
\* the subtitle fallback, then break
FlFallback(lastErr, fb) ==
    IF fb.t = "raise" THEN fl_lastError' = FallbackErr /\ FlBreak
    ELSE IF fb.cues # <<>> THEN fl_lastError' = lastErr /\ FlReturn(fb.cues)
    ELSE fl_lastError' = lastErr /\ FlBreak

\* one iteration of the retry loop
flask_download_attempt(o1, o2, fb) ==
    /\ fl_pc = "loop"
    /\ fl_attempt < fl_maxRetries
    /\ UNCHANGED <<fl_maxRetries, fl_libInstalled, fl_hasStatic, notFl>>
    /\ IF ~fl_libInstalled
       THEN /\ fl_calls' = Append(fl_calls, "fallback")
            /\ fl_events' = Append(fl_events, FlEvent("no_library", ImportErr))
            /\ FlFallback(ImportErr, fb)
       ELSE LET st == FlStructured(o1, o2)
                cls == Classify(st.err) IN
            IF ~st.ok
            THEN /\ fl_calls' = fl_calls \o FlLibCalls(o1, o2).calls
                 /\ fl_events' = Append(fl_events, FlEvent(cls, st.err))
                 /\ fl_lastError' = st.err
                 /\ IF cls \in {"rate_limit", "network"} THEN FlSleepAndContinue ELSE FlBreak
            ELSE IF st.items # <<>>
            THEN /\ fl_calls' = fl_calls \o FlLibCalls(o1, o2).calls
                 /\ fl_events' = Append(fl_events, FlEvent("items", NoErr))
                 /\ UNCHANGED fl_lastError
                 /\ FlReturn(st.items)
            ELSE /\ fl_calls' = (fl_calls \o FlLibCalls(o1, o2).calls) \o <<"fallback">>
                 /\ fl_events' = Append(fl_events, FlEvent("empty", NoErr))
                 /\ FlFallback(fl_lastError, fb)

\* after the loop: raise last_error, or RuntimeError when there is none
flask_download_raise ==
    /\ fl_pc \in {"loop", "after"}
    /\ fl_pc = "loop" => ~(fl_attempt < fl_maxRetries)
    /\ fl_pc' = "done"
    /\ fl_result' = Result("raise", <<>>, IF fl_lastError # NoErr THEN fl_lastError ELSE FailedErr)
    /\ UNCHANGED <<fl_maxRetries, fl_libInstalled, fl_hasStatic, fl_attempt, fl_calls,
                   fl_events, fl_sleeps, fl_lastError, notFl>>

NextFlask ==
    \/ \E o1 \in CallOutcomes, o2 \in CallOutcomes, fb \in FallbackOutcomes :
          flask_download_attempt(o1, o2, fb)
    \/ flask_download_raise

SpecFlask == FlInit /\ [][NextFlask]_vars

InSeq(x, seq) == \E i \in 1..Len(seq) : seq[i] = x

\* C1: when the structured retrieval fails with a non-transient error (the
\* message says the transcript is disabled or that there is no transcript),
\* the library call is not retried and the yt-dlp subtitle fallback is
\* tried; failure is reported only after that fallback gave no cues.
C1_UnavailableFallsThrough ==
    fl_pc = "done" =>
        \A i \in 1..Len(fl_events) :
            fl_events[i].unavail =>
                /\ i = Len(fl_events)
                /\ InSeq("fallback", fl_calls)

\* ------------------------------------------------------------------------
\* flask_transcript_api.maybe_sleep_backoff, times in milliseconds
\* ------------------------------------------------------------------------
BackoffBase == 1000
BackoffCap == 30000
BackoffMinSleep == 100

\* wait = min(cap, base * (2 ** attempt))
BackoffWait(attempt) == Min(BackoffCap, BackoffBase * Pow2(attempt))

\* jitter = random.uniform(-0.5 * wait, 0.5 * wait); k/JitterSteps is the
\* position of the draw in that range, k in -JitterSteps..JitterSteps
BackoffJitter(wait, k) == (wait * k) \div (2 * JitterSteps)

\* sleep_for = max(0.1, wait + jitter)
BackoffSleep(attempt, k) ==
    Max(BackoffMinSleep, BackoffWait(attempt) + BackoffJitter(BackoffWait(attempt), k))

BkInit ==
    /\ bk_pc = "call" /\ bk_attempt \in 0..MaxAttempt
    /\ bk_jitter \in (0 - JitterSteps)..JitterSteps /\ bk_sleep = 0
    /\ IdleExcept("bk")

maybe_sleep_backoff ==
    /\ bk_pc = "call"
    /\ bk_pc' = "done"
    /\ bk_sleep' = BackoffSleep(bk_attempt, bk_jitter)
    /\ UNCHANGED <<bk_attempt, bk_jitter, notBk>>

NextBackoff == maybe_sleep_backoff

SpecBackoff == BkInit /\ [][NextBackoff]_vars

\* C10: the wait of maybe_sleep_backoff never exceeds the cap (30 seconds),
\* for every attempt number and every jitter drawn; below the cap the base
\* wait doubles with each attempt.
C10_SleepWithinCap ==
    /\ bk_pc = "done" => bk_sleep <= BackoffCap
    /\ \A a \in 0..(MaxAttempt - 1) :
          BackoffWait(a + 1) < BackoffCap => BackoffWait(a + 1) = 2 * BackoffWait(a)

\* ------------------------------------------------------------------------
\* download_transcript_formats.download_transcript
\* (download_transcript_formats_batch.download_transcript is the same code)
\* ------------------------------------------------------------------------
FdInit ==
    /\ fd_pc = "call" /\ fd_urlValid \in BOOLEAN /\ fd_libInstalled \in BOOLEAN
    /\ fd_hasStatic \in BOOLEAN /\ fd_calls = <<>> /\ fd_structured = NoStructured
    /\ fd_fallback = FallbackNotCalled /\ fd_fetchError = NoErr /\ fd_result = NoResult
    /\ IdleExcept("fd")

\* the library calls: the static call when the class has get_transcript,
\* else fetch with languages= and, on TypeError, fetch without.  The
\* argument extract_video_id(url) is evaluated before each call and raises
\* ValueError on a bad URL.
FdLibCalls(o1, o2) ==
    IF ~fd_urlValid THEN [calls |-> <<>>, out |-> Throws(InvalidUrlErr)]
    ELSE IF fd_hasStatic THEN [calls |-> <<"static">>, out |-> AsException(o1)]
    ELSE IF o1.t = "typeerror"
    THEN [calls |-> <<"fetch_lang", "fetch">>, out |-> AsException(o2)]
    ELSE [calls |-> <<"fetch_lang">>, out |-> o1]

\* the try block around the library calls and the normalization
FdStructured(o1, o2) ==
    IF ~fd_libInstalled THEN Structured(FALSE, <<>>, ImportErr)
    ELSE LET lib == FdLibCalls(o1, o2) IN
         IF lib.out.t = "raise" THEN Structured(FALSE, <<>>, lib.out.err)
         ELSE LET n == normalize_transcript_obj(lib.out.raw) IN
              IF n.ok THEN Structured(TRUE, n.cues, NoErr)
              ELSE Structured(FALSE, <<>>, NormErr)

FdNeedsFallback_always(items) == TRUE

\* "if not items:" before the fallback
FdNeedsFallback(items) == items = <<>>

\* yt_dlp_subtitle_fallback(url, ...): extract_video_id raises on a bad URL
FdFallback(fb) == IF ~fd_urlValid THEN Fallback("raise", <<>>) ELSE fb

\* the whole function
formats_download_transcript(o1, o2, fb) ==
    /\ fd_pc = "call"
    /\ fd_pc' = "done"
    /\ UNCHANGED <<fd_urlValid, fd_libInstalled, fd_hasStatic, notFd>>
    /\ LET st == FdStructured(o1, o2)
           libCalls == IF fd_libInstalled THEN FdLibCalls(o1, o2).calls ELSE <<>>
       IN
       /\ fd_structured' = st
       /\ fd_fetchError' = st.err
       /\ IF FdNeedsFallback(st.items)
          THEN LET f == FdFallback(fb) IN
               /\ fd_calls' = Append(libCalls, "fallback")
               /\ fd_fallback' = f
               /\ fd_result' =
                     IF f.t = "raise"
                     THEN Result("raise", <<>>, IF fd_urlValid THEN FallbackErr ELSE InvalidUrlErr)
                     ELSE IF f.cues = <<>> THEN Result("raise", <<>>, RetrievalErr)
                     ELSE Result("cues", MapItems(f.cues), NoErr)
          ELSE /\ fd_calls' = libCalls
               /\ fd_fallback' = FallbackNotCalled
               /\ fd_result' = Result("cues", MapItems(st.items), NoErr)

NextFormats ==
    \E o1 \in CallOutcomes, o2 \in CallOutcomes, fb \in FallbackOutcomes :
        formats_download_transcript(o1, o2, fb)

SpecFormats == FdInit /\ [][NextFormats]_vars

\* the static call was made and raised
FdStaticFailed ==
    /\ InSeq("static", fd_calls)
    /\ ~fd_structured.ok /\ fd_structured.err.src \in {"lib", "typeerror"}

\* C8: the static call is tried first; if it is absent or fails the
\* instance form is tried next, the language-qualified fetch before the
\* unqualified one; the subtitle fallback is reached only after both forms
\* have failed.
C8_StaticThenInstance ==
    fd_pc = "done" =>
        /\ FdStaticFailed => InSeq("fetch_lang", fd_calls)
        /\ InSeq("fetch", fd_calls) => (InSeq("fetch_lang", fd_calls) /\ ~InSeq("static", fd_calls))

JdInit ==
    /\ jd_pc = "call" /\ jd_urlValid \in BOOLEAN /\ jd_libInstalled \in BOOLEAN
    /\ jd_hasStatic \in BOOLEAN /\ jd_preferLang \in BOOLEAN /\ jd_fmt \in {"txt", "json", "xml"}
    /\ jd_calls = <<>> /\ jd_items = <<>> /\ jd_result = "none"
    /\ IdleExcept("jd")

JdCallOutcomes ==
    {Returns(ListObj(<<>>)), Returns(ListObj(<<RawItemA, RawItemC>>)), Returns(NoneObj),
     Throws(Err("lib", FALSE, FALSE, FALSE)), ThrowsTypeError}

JdFallbackOutcomes ==
    {Fallback("raise", <<>>), Fallback("return", <<>>)}
    \cup {Fallback("return", ParseSubtitlesJson(d, e)) : d \in FallbackFiles, e \in BOOLEAN}

MapItemsJson(items) == [i \in 1..Len(items) |-> to_item_dict_json(items[i])]

\* normalize_transcript_obj of download_transcript_json on a library result
JdNormalize(out) ==
    IF out.t # "return" THEN Structured(FALSE, <<>>, out.err)
    ELSE LET n == normalize_transcript_obj(out.raw) IN
         IF n.ok THEN Structured(TRUE, MapItemsJson(n.cues), NoErr)
         ELSE Structured(FALSE, <<>>, NormErr)

\* the instance-based API: fetch with languages= then fetch when a language
\* is preferred, else fetch then list
JdInstance(oLang, oFetch, oList) ==
    IF jd_preferLang
    THEN IF oLang.t = "typeerror"
         THEN [calls |-> <<"fetch_lang", "fetch">>, st |-> JdNormalize(AsException(oFetch))]
         ELSE [calls |-> <<"fetch_lang">>, st |-> JdNormalize(oLang)]
    ELSE IF oFetch.t # "return"
         THEN [calls |-> <<"fetch", "list">>, st |-> JdNormalize(AsException(oList))]
         ELSE [calls |-> <<"fetch">>, st |-> JdNormalize(oFetch)]

\* the static call first; on any exception (also: no get_transcript, or the
\* normalization failed) the instance-based API
JdStructured(oStatic, oLang, oFetch, oList) ==
    LET static == JdNormalize(AsException(oStatic))
        inst == JdInstance(oLang, oFetch, oList)
    IN  IF jd_hasStatic /\ static.ok THEN [calls |-> <<"static">>, st |-> static]
        ELSE [calls |-> (IF jd_hasStatic THEN <<"static">> ELSE <<>>) \o inst.calls, st |-> inst.st]

JsonFormats == {"txt", "json"}

\* the whole function, save_output included
json_download_transcript(oStatic, oLang, oFetch, oList, fb) ==
    /\ jd_pc = "call"
    /\ jd_pc' = "done"
    /\ UNCHANGED <<jd_urlValid, jd_libInstalled, jd_hasStatic, jd_preferLang, jd_fmt, notJd>>
    /\ IF ~jd_urlValid
       THEN jd_calls' = <<>> /\ jd_items' = <<>> /\ jd_result' = "raise"
       ELSE LET r == IF jd_libInstalled THEN JdStructured(oStatic, oLang, oFetch, oList)
                     ELSE [calls |-> <<>>, st |-> Structured(FALSE, <<>>, ImportErr)]
                needFb == r.st.items = <<>>
                items == IF ~needFb THEN r.st.items
                         ELSE IF fb.t = "raise" THEN <<>> ELSE fb.cues
            IN
            /\ jd_calls' = IF needFb THEN Append(r.calls, "fallback") ELSE r.calls
            /\ jd_items' = items
            /\ jd_result' = IF items # <<>> /\ jd_fmt \in JsonFormats THEN "saved" ELSE "raise"

NextJson ==
    \E oStatic \in JdCallOutcomes, oLang \in JdCallOutcomes, oFetch \in JdCallOutcomes,
       oList \in JdCallOutcomes, fb \in JdFallbackOutcomes :
        json_download_transcript(oStatic, oLang, oFetch, oList, fb)

SpecJson == JdInit /\ [][NextJson]_vars

\* C6: every cue of every cue sequence handed to a format writer carries
\* the five keys text, start, duration, speaker and confidence, whichever
\* path produced it (download_transcript_json: the items given to save_output).
C6_AllFiveKeys ==
    jd_pc = "done" => \A i \in 1..Len(jd_items) : DOMAIN jd_items[i] = Keys

\* C6, download_transcript_formats: the cues returned carry the five keys
C6_FormatsAllFiveKeys ==
    fd_pc = "done" => \A i \in 1..Len(fd_result.cues) : DOMAIN fd_result.cues[i] = Keys

\* ------------------------------------------------------------------------
\* download_transcript_formats.extract_video_id (the other scripts carry the
\* same function).  Texts are sequences of characters.
\* ------------------------------------------------------------------------
\* the length the pattern [A-Za-z0-9_-]{6,} asks for
MinIdLen == 6

\* characters of the class [A-Za-z0-9_-] that the model uses
IdChars == {"w", "a", "t", "c", "h", "Z", "9", "_", "-"}

\* path segments: empty, too short, of the class, with a foreign character,
\* longer than the minimum
Segments ==
    {<<>>, <<"w", "a", "t", "c", "h">>, <<"a", "Z", "9", "_", "-", "c">>,
     <<"a", "Z", ".", "_", "-", "c">>, <<"h", "h", "h", "h", "h", "h", "h">>}

\* values of query parameters: blank, short, with an encoded space, of the class
QueryValues == {<<>>, <<"a", "+", "Z">>, <<"t", "9", "_", "-", "c", "h">>}
QueryParams == [k : {"v", "t"}, val : QueryValues]

Urls ==
    [segs : UNION {[1..n -> Segments] : n \in 0..MaxSegs},
     query : UNION {[1..n -> QueryParams] : n \in 0..MaxParams}]

RECURSIVE JoinPath(_)
\* parsed.path: the segments with "/" between them
JoinPath(segs) ==
    IF segs = <<>> THEN <<>>
    ELSE IF Len(segs) = 1 THEN segs[1]
    ELSE (segs[1] \o <<"/">>) \o JoinPath(Tail(segs))

\* unquote of a query value: "+" stands for a space
Unquote(val) == [i \in 1..Len(val) |-> IF val[i] = "+" THEN " " ELSE val[i]]

RECURSIVE ParseQs(_, _)
\* parse_qs(parsed.query)[key]: the decoded values of key in order; blank
\* values are dropped (keep_blank_values is False)
ParseQs(query, key) ==
    IF query = <<>> THEN <<>>
    ELSE IF Head(query).k = key /\ Head(query).val # <<>>
    THEN <<Unquote(Head(query).val)>> \o ParseQs(Tail(query), key)
    ELSE ParseQs(Tail(query), key)

RECURSIVE LStrip(_)
LStrip(s) == IF s # <<>> /\ Head(s) = "/" THEN LStrip(Tail(s)) ELSE s

RECURSIVE RStrip(_)
RStrip(s) == IF s # <<>> /\ s[Len(s)] = "/" THEN RStrip(SubSeq(s, 1, Len(s) - 1)) ELSE s

StripSlashes_leading(s) == LStrip(s)

\* path.strip("/")
StripSlashes(s) == RStrip(LStrip(s))

RECURSIVE Split(_)
\* path.split("/")
Split(s) ==
    IF \A i \in 1..Len(s) : s[i] # "/" THEN <<s>>
    ELSE LET i == CHOOSE i \in 1..Len(s) : s[i] = "/" /\ \A j \in 1..(i - 1) : s[j] # "/"
         IN  <<SubSeq(s, 1, i - 1)>> \o Split(SubSeq(s, i + 1, Len(s)))

\* re.match(r"^[A-Za-z0-9_-]{6,}$", candidate)
IsVideoId(candidate) ==
    Len(candidate) >= MinIdLen /\ \A i \in 1..Len(candidate) : candidate[i] \in IdChars

FirstValue_last(vs) == vs[Len(vs)]

\* q["v"][0]
FirstValue(vs) == vs[1]

EvReturn(id) == [ok |-> TRUE, id |-> id]
EvRaise == [ok |-> FALSE, id |-> <<>>]

extract_video_id(url) ==
    LET v == ParseQs(url.query, "v")
        parts == Split(StripSlashes(JoinPath(url.segs)))
        candidate == parts[Len(parts)]
    IN  IF v # <<>> THEN EvReturn(FirstValue(v))
        ELSE IF IsVideoId(candidate) THEN EvReturn(candidate)
        ELSE EvRaise

EvInit ==
    /\ ev_pc = "call" /\ ev_url \in Urls /\ ev_res = EvRaise
    /\ IdleExcept("ev")

extract_video_id_call ==
    /\ ev_pc = "call"
    /\ ev_pc' = "done"
    /\ ev_res' = extract_video_id(ev_url)
    /\ UNCHANGED <<ev_url, notEv>>

NextExtract == extract_video_id_call

SpecExtract == EvInit /\ [][NextExtract]_vars

\* the positions of the v parameters of the query that have a value
EvNonBlankV == {i \in 1..Len(ev_url.query) : ev_url.query[i].k = "v" /\ ev_url.query[i].val # <<>>}

\* the positions of the non-empty segments of the path
EvNonEmptySegs == {i \in 1..Len(ev_url.segs) : ev_url.segs[i] # <<>>}

EvOfClass(s) == \A i \in 1..Len(s) : s[i] \in {"w", "a", "t", "c", "h", "Z", "9", "_", "-"}

\* C11: for a URL watch?v=ID, and for a URL whose path is /ID with ID of at
\* least 6 characters of the class, extract_video_id returns exactly ID;
\* when a non-empty v parameter exists its first value is returned whatever
\* the path is.
C11_ReturnsTheId ==
    ev_pc = "done" =>
        /\ EvNonBlankV # {} =>
              LET first == CHOOSE i \in EvNonBlankV : \A j \in EvNonBlankV : i <= j
                  ID == ev_url.query[first].val
              IN  /\ ev_res.ok
                  /\ EvOfClass(ID) => ev_res.id = ID
                  /\ ev_res.id = [i \in 1..Len(ID) |-> IF ID[i] = "+" THEN " " ELSE ID[i]]
        /\ (EvNonBlankV = {} /\ Len(ev_url.segs) = 2 /\ ev_url.segs[1] = <<>>
            /\ Len(ev_url.segs[2]) >= 6 /\ EvOfClass(ev_url.segs[2]))
              => ev_res = [ok |-> TRUE, id |-> ev_url.segs[2]]

C11_Witness ==
    /\ ev_pc = "done"
    /\ ev_url.segs = <<<<>>, <<"w", "a", "t", "c", "h">>>>
    /\ Len(ev_url.query) = 2 /\ ev_url.query[1] = [k |-> "v", val |-> <<>>]
    /\ ev_url.query[2] = [k |-> "v", val |-> <<"t", "9", "_", "-", "c", "h">>]
    /\ ev_res = [ok |-> TRUE, id |-> <<"t", "9", "_", "-", "c", "h">>]

\* C12: without a non-empty v parameter, extract_video_id returns the last
\* non-empty path segment if and only if that segment is 6 or more
\* characters of the class; in every other case it raises, and it never
\* returns an empty or partial id.
C12_LastSegmentOrRaise ==
    (ev_pc = "done" /\ EvNonBlankV = {}) =>
        LET accept == /\ EvNonEmptySegs # {}
                      /\ LET last == CHOOSE i \in EvNonEmptySegs : \A j \in EvNonEmptySegs : j <= i
                         IN  Len(ev_url.segs[last]) >= 6 /\ EvOfClass(ev_url.segs[last])
        IN  /\ ev_res.ok <=> accept
            /\ ev_res.ok =>
                  LET last == CHOOSE i \in EvNonEmptySegs : \A j \in EvNonEmptySegs : j <= i
                  IN  ev_res.id = ev_url.segs[last]
            /\ ~ev_res.ok => ev_res = [ok |-> FALSE, id |-> <<>>]

C12_Witness ==
    /\ ev_pc = "done" /\ ev_url.query = <<[k |-> "v", val |-> <<>>]>>
    /\ ev_url.segs = <<<<>>, <<"a", "Z", "9", "_", "-", "c">>, <<>>>>
    /\ ev_res = [ok |-> TRUE, id |-> <<"a", "Z", "9", "_", "-", "c">>]

\* ------------------------------------------------------------------------
\* download_transcript_formats.secs_to_srt_timestamp / secs_to_vtt_timestamp
\* ------------------------------------------------------------------------
\* A time is a number k of milliseconds; the argument secs is the double
\* nearest to k/1000, and timedelta(seconds=secs).total_seconds() is that
\* same double.  A timestamp is its four numeric fields and the separator
\* before the milliseconds; the fields are printed with %02d, %02d, %02d, %03d.
Timestamp(hh, mm, ss, ms, sep) == [hh |-> hh, mm |-> mm, ss |-> ss, ms |-> ms, sep |-> sep]

\* number of fraction bits of an IEEE-754 double
MantissaBits == 52

\* the exponent of the double nearest to k/1000: 2^p <= k/1000 < 2^(p+1)
BinadeOf(k) ==
    CHOOSE p \in (0 - 10)..19 :
        IF p >= 0 THEN Pow2(p) * 1000 <= k /\ k < Pow2(p + 1) * 1000
        ELSE k < 1000 /\ 1000 <= k * Pow2(0 - p) /\ k * Pow2(0 - p) < 2000

RECURSIVE Pow2Mod1000(_)
Pow2Mod1000(e) == IF e = 0 THEN 1 ELSE (2 * Pow2Mod1000(e - 1)) % 1000

\* (k * 2^e) mod 1000 for e = MantissaBits - p: what the division k/1000
\* leaves to be rounded in the last bit of the double.  0: k/1000 is exact;
\* below 500: the double is below k/1000; above 500: it is above.
DivisionRemainder(k) == ((k % 1000) * Pow2Mod1000(MantissaBits - BinadeOf(k))) % 1000

\* the largest q with 2^q < ms (the exponent of the doubles just below ms)
BinadeBelow(ms) == CHOOSE q \in (0 - 1)..9 : Pow2(q + 1) < 2 * ms /\ 2 * ms <= Pow2(q + 2)

\* int((td.total_seconds() - total_seconds) * 1000): the subtraction is
\* exact, the product is rounded to a double and int() truncates it.  When
\* the double is below k/1000 by d/2^e the product is ms - d * 2^(p-52),
\* which rounds to a double below ms exactly when d * 2^(p+1) > 2^q.
FractionMillis(k) ==
    LET ms == k % 1000
        p == BinadeOf(k)
        d == DivisionRemainder(k)
    IN  IF ms = 0 \/ d = 0 \/ d > 500 THEN ms
        ELSE IF p + 1 > 9 THEN ms - 1
        ELSE IF d * Pow2(p + 12) > Pow2(BinadeBelow(ms) + 11) THEN ms - 1
        ELSE ms

SecsToTimestamp(k, sep) ==
    LET total_seconds == k \div 1000
    IN  Timestamp(total_seconds \div 3600, (total_seconds % 3600) \div 60, total_seconds % 60,
                  FractionMillis(k), sep)

secs_to_srt_timestamp(k) == SecsToTimestamp(k, ",")
secs_to_vtt_timestamp(k) == SecsToTimestamp(k, ".")

\* times around the second, minute and hour boundaries
TimeBases == {0, 59000, 3599000, 3725000, 86399000}
TimesMs == {b + k : b \in TimeBases, k \in 0..MaxMillis}

TsInit ==
    /\ ts_pc = "call" /\ ts_ms \in TimesMs
    /\ ts_srt = Timestamp(0, 0, 0, 0, ",") /\ ts_vtt = Timestamp(0, 0, 0, 0, ".")
    /\ IdleExcept("ts")

format_timestamps ==
    /\ ts_pc = "call"
    /\ ts_pc' = "done"
    /\ ts_srt' = secs_to_srt_timestamp(ts_ms)
    /\ ts_vtt' = secs_to_vtt_timestamp(ts_ms)
    /\ UNCHANGED <<ts_ms, notTs>>

NextTimestamp == format_timestamps

SpecTimestamp == TsInit /\ [][NextTimestamp]_vars

\* C16: for every non-negative time of millisecond resolution the two
\* functions return HH:MM:SS and mmm with HH*3600 + MM*60 + SS the whole
\* seconds, MM and SS below 60, mmm the rounded fractional milliseconds in
\* 0..999, and they differ only in the separator (comma for srt, period
\* for vtt).
C16_TimestampFields ==
    ts_pc = "done" =>
        /\ ts_srt.hh * 3600 + ts_srt.mm * 60 + ts_srt.ss = ts_ms \div 1000
        /\ ts_srt.mm \in 0..59 /\ ts_srt.ss \in 0..59
        /\ ts_srt.ms = ts_ms - (ts_ms \div 1000) * 1000
        /\ ts_srt.ms \in 0..999
        /\ ts_srt.sep = "," /\ ts_vtt.sep = "."
        /\ ts_vtt = [ts_srt EXCEPT !.sep = "."]

\* C16, the fields other than the milliseconds are as stated
C16_WholeSecondsAndSeparator ==
    ts_pc = "done" =>
        /\ ts_srt.hh * 3600 + ts_srt.mm * 60 + ts_srt.ss = ts_ms \div 1000
        /\ ts_srt.mm \in 0..59 /\ ts_srt.ss \in 0..59
        /\ ts_srt.ms \in 0..999
        /\ ts_srt.sep = "," /\ ts_vtt.sep = "."
        /\ ts_vtt = [ts_srt EXCEPT !.sep = "."]

\* ------------------------------------------------------------------------
\* download_transcript_formats: compute_end, write_srt, write_vtt, write_txt,
\* write_json, and the readers that take the written files back
\* ------------------------------------------------------------------------
\* the cues handed to the writers
WriterCues ==
    {Cue(1, NULL, NULL, NULL, NULL), Cue(2, NULL, NULL, 7, NULL),
     Cue(1, 0, 2000, NULL, NULL), Cue(2, 2000, NULL, NULL, NULL),
     Cue(1, NULL, 1500, NULL, NULL), Cue(NULL, 4000, 0, NULL, NULL),
     Cue(2, 1001, NULL, 7, 90), Cue(1, NULL, 0, NULL, NULL)}

WriterInputs == UNION {[1..n -> WriterCues] : n \in 0..MaxItems}

compute_end_nonext(start, duration, default_next_start) ==
    IF start = NULL THEN NULL
    ELSE IF duration # NULL THEN start + duration
    ELSE NULL

compute_end(start, duration, default_next_start) ==
    IF start = NULL THEN NULL
    ELSE IF duration # NULL THEN start + duration
    ELSE IF default_next_start # NULL THEN default_next_start
    ELSE NULL

\* the 2.0 of "duration if duration else 2.0"
DefaultDuration == 2000
\* the 2.0 of "start = (i * 2.0)"
SyntheticSpacing == 2000

\* duration if duration else 2.0
DurationOrDefault(duration) ==
    IF duration # NULL /\ duration # 0 THEN duration ELSE DefaultDuration

SyntheticStart_oneBased(i) == i * SyntheticSpacing

\* start = (i * 2.0) for the cue at position i (positions count from 1 here)
SyntheticStart(i) == (i - 1) * SyntheticSpacing

\* next_start = items[i+1].get("start") if there is a next cue
NextStart(items, i) == IF i + 1 <= Len(items) THEN items[i + 1].start ELSE NULL

\* the start and end of cue i as write_srt and write_vtt compute them
CueTiming(items, i) ==
    LET start == items[i].start
        duration == items[i].duration
        end == compute_end(start, duration, NextStart(items, i))
    IN  IF start = NULL
        THEN [start |-> SyntheticStart(i), computed |-> end,
              end |-> SyntheticStart(i) + DurationOrDefault(duration)]
        ELSE IF end = NULL
        THEN [start |-> start, computed |-> end, end |-> start + DurationOrDefault(duration)]
        ELSE [start |-> start, computed |-> end, end |-> end]

\* A line of text is a sequence of tokens: the ids of texts and speakers,
\* and marks for what the writers and readers put between them.
\* the ": " of "speaker: text"
ColonTok == -1
\* the " " that replaces a line break in a cue body
SpaceTok == -2
\* the "[", "] " of "[speaker] text"
BracketTok == -3
\* the text of a timing line
TimingTok == -4
\* the text "WEBVTT"
HeaderTok == -5
\* the text of the index line n is IndexTok + n
IndexTok == 100

\* text = it.get("text") or ""
TextToks(text) == IF text = NULL THEN <<>> ELSE <<text>>

BodyToks_textOnly(it) == TextToks(it.text)

\* f"{speaker}: {text}" if speaker else text
BodyToks(it) ==
    IF it.speaker # NULL THEN <<it.speaker, ColonTok>> \o TextToks(it.text) ELSE TextToks(it.text)

\* f"[{speaker}] {text}" if speaker else text
TxtToks(it) ==
    IF it.speaker # NULL THEN <<BracketTok, it.speaker, BracketTok>> \o TextToks(it.text)
    ELSE TextToks(it.text)

\* A file is the sequence of its lines ("\n".join(lines)).
NoTimestamp == Timestamp(0, 0, 0, 0, "")
SubLine(t, n, a, b, toks) == [t |-> t, n |-> n, a |-> a, b |-> b, toks |-> toks]
SubBlank == SubLine("blank", 0, NoTimestamp, NoTimestamp, <<>>)
HeaderLine == SubLine("header", 0, NoTimestamp, NoTimestamp, <<HeaderTok>>)
IndexLine(n) == SubLine("index", n, NoTimestamp, NoTimestamp, <<IndexTok + n>>)
TimingLine(a, b) == SubLine("timing", 0, a, b, <<TimingTok>>)
\* a line without characters is a blank line
TextLine(toks) ==
    IF toks = <<>> THEN SubBlank ELSE SubLine("body", 0, NoTimestamp, NoTimestamp, toks)

RECURSIVE SrtLines(_, _)
SrtLines(items, i) ==
    IF i > Len(items) THEN <<>>
    ELSE LET t == CueTiming(items, i) IN
         <<IndexLine(i),
           TimingLine(secs_to_srt_timestamp(t.start), secs_to_srt_timestamp(t.end)),
           TextLine(BodyToks(items[i])), SubBlank>> \o SrtLines(items, i + 1)

write_srt(items) == SrtLines(items, 1)

RECURSIVE VttLines(_, _)
VttLines(items, i) ==
    IF i > Len(items) THEN <<>>
    ELSE LET t == CueTiming(items, i) IN
         <<TimingLine(secs_to_vtt_timestamp(t.start), secs_to_vtt_timestamp(t.end)),
           TextLine(BodyToks(items[i])), SubBlank>> \o VttLines(items, i + 1)

write_vtt(items) == <<HeaderLine, SubBlank>> \o VttLines(items, 1)

\* one line per cue, each ended by "\n"
write_txt(items) == [i \in 1..Len(items) |-> TextLine(TxtToks(items[i]))] \o <<SubBlank>>

\* json.dump(items): the items as they are
write_json(items) == items

\* fmt(ts) of write_csv: "" for None, else the VTT timestamp
CsvTime(ts) == IF ts = NULL THEN NoTimestamp ELSE secs_to_vtt_timestamp(ts)

CsvHeader == [kind |-> "header", start |-> NoTimestamp, duration |-> NoTimestamp,
              speaker |-> NULL, confidence |-> NULL, text |-> NULL]

\* writeheader(), then one row per cue
write_csv(items) ==
    <<CsvHeader>> \o
    [i \in 1..Len(items) |->
        [kind |-> "row", start |-> CsvTime(items[i].start), duration |-> CsvTime(items[i].duration),
         speaker |-> items[i].speaker, confidence |-> items[i].confidence, text |-> items[i].text]]

\* one paragraph per cue: the speaker run, the timestamp run, the text run
write_docx(items) ==
    [i \in 1..Len(items) |->
        [kind |-> "paragraph", speaker |-> items[i].speaker,
         ts |-> CsvTime(items[i].start), text |-> TextToks(items[i].text)]]

\* one block per cue: the header cell when there is one, and the text cell
write_pdf(items) ==
    [i \in 1..Len(items) |->
        [kind |-> "block", header |-> items[i].speaker # NULL \/ items[i].start # NULL,
         speaker |-> items[i].speaker, ts |-> CsvTime(items[i].start),
         text |-> TextToks(items[i].text)]]

\* --- the readers: the SRT and VTT patterns of yt_dlp_subtitle_fallback
\* applied to the lines of a file
\* the first line at or after i that is not blank (Len + 1: none)
NextNonBlank(lines, i) ==
    IF \E j \in i..Len(lines) : lines[j].t # "blank"
    THEN CHOOSE j \in i..Len(lines) :
            lines[j].t # "blank" /\ \A h \in i..(j - 1) : lines[h].t = "blank"
    ELSE Len(lines) + 1

\* line j is a timing line of the format, and a line break follows it
IsTimingLine(lines, j, sep) ==
    j < Len(lines) /\ lines[j].t = "timing" /\ lines[j].a.sep = sep /\ lines[j].b.sep = sep

\* the line of the timing of a match that starts at line p (0: no match):
\* the SRT pattern starts at an index line, \s*\n skips blank lines
TimingOfMatch(lines, p, kind) ==
    IF kind = "srt"
    THEN IF lines[p].t = "index" /\ IsTimingLine(lines, NextNonBlank(lines, p + 1), ",")
         THEN NextNonBlank(lines, p + 1) ELSE 0
    ELSE IF IsTimingLine(lines, p, ".") THEN p ELSE 0

\* (.*?)(?=\n{2,}|\Z): the body starts at line k and runs to the first line
\* that is the last of the file or has a blank line after it
BodyEnd(lines, k) ==
    CHOOSE m \in k..Len(lines) :
        /\ m = Len(lines) \/ lines[m + 1].t = "blank"
        /\ \A h \in k..(m - 1) : lines[h + 1].t # "blank"

RECURSIVE JoinLines(_, _, _)
\* mm.group(3).strip().replace("\n", " ")
JoinLines(lines, k, m) ==
    IF k > m THEN <<>>
    ELSE IF k = m THEN lines[k].toks
    ELSE (lines[k].toks \o <<SpaceTok>>) \o JoinLines(lines, k + 1, m)

\* to_secs of a written timestamp, in milliseconds
TimestampToMs(ts) == ((ts.hh * 3600 + ts.mm * 60 + ts.ss) * 1000) + ts.ms

ReadCue(text, a, b) ==
    [text |-> text, start |-> TimestampToMs(a), duration |-> TimestampToMs(b) - TimestampToMs(a),
     speaker |-> NULL, confidence |-> NULL]

RECURSIVE ReadFrom(_, _, _)
\* finditer from line i on
ReadFrom(lines, i, kind) ==
    LET starts == {p \in i..Len(lines) : TimingOfMatch(lines, p, kind) # 0} IN
    IF starts = {} THEN <<>>
    ELSE LET p == CHOOSE p \in starts : \A h \in starts : p <= h
             j == TimingOfMatch(lines, p, kind)
             k == NextNonBlank(lines, j + 1)
         IN  IF k > Len(lines)
             THEN <<ReadCue(<<>>, lines[j].a, lines[j].b)>>
             ELSE <<ReadCue(JoinLines(lines, k, BodyEnd(lines, k)), lines[j].a, lines[j].b)>>
                  \o ReadFrom(lines, BodyEnd(lines, k) + 1, kind)

ReadSubtitleLines(lines, kind) == ReadFrom(lines, 1, kind)

\* json.load of a file written by json.dump; the text as the tokens of a line
ReadJson(items) ==
    [i \in 1..Len(items) |->
        [text |-> TextToks(items[i].text), start |-> items[i].start,
         duration |-> items[i].duration, speaker |-> items[i].speaker,
         confidence |-> items[i].confidence]]

NoFile == [lines |-> <<>>, items |-> <<>>, rows |-> <<>>]

\* The cue sequence as a writer's loop leaves it. The loops read each cue
\* with it.get(...) and bind start, end and text to local names: the timing
\* a writer synthesizes is never stored into the cue.
ItemsAfterWrite_backfill(items, timing) ==
    [i \in 1..Len(items) |->
        [items[i] EXCEPT !.start = timing[i].start,
                         !.duration = timing[i].end - timing[i].start]]

ItemsAfterWrite(items, timing) == [i \in 1..Len(items) |-> items[i]]

WrInit ==
    /\ wr_pc = "call" /\ wr_items \in WriterInputs /\ wr_fmt = "none" /\ wr_timing = <<>>
    /\ wr_out = NoFile /\ wr_back = <<>>
    /\ IdleExcept("wr")

write_srt_call ==
    /\ wr_pc = "call"
    /\ wr_pc' = "written"
    /\ wr_fmt' = "srt"
    /\ wr_timing' = [i \in 1..Len(wr_items) |-> CueTiming(wr_items, i)]
    /\ wr_out' = [lines |-> write_srt(wr_items), items |-> <<>>, rows |-> <<>>]
    /\ wr_items' = ItemsAfterWrite(wr_items, [i \in 1..Len(wr_items) |-> CueTiming(wr_items, i)])
    /\ UNCHANGED <<wr_back, notWr>>

write_vtt_call ==
    /\ wr_pc = "call"
    /\ wr_pc' = "written"
    /\ wr_fmt' = "vtt"
    /\ wr_timing' = [i \in 1..Len(wr_items) |-> CueTiming(wr_items, i)]
    /\ wr_out' = [lines |-> write_vtt(wr_items), items |-> <<>>, rows |-> <<>>]
    /\ wr_items' = ItemsAfterWrite(wr_items, [i \in 1..Len(wr_items) |-> CueTiming(wr_items, i)])
    /\ UNCHANGED <<wr_back, notWr>>

write_txt_call ==
    /\ wr_pc = "call"
    /\ wr_pc' = "written"
    /\ wr_fmt' = "txt"
    /\ wr_timing' = <<>>
    /\ wr_out' = [lines |-> write_txt(wr_items), items |-> <<>>, rows |-> <<>>]
    /\ wr_items' = ItemsAfterWrite(wr_items, [i \in 1..Len(wr_items) |-> CueTiming(wr_items, i)])
    /\ UNCHANGED <<wr_back, notWr>>

write_json_call ==
    /\ wr_pc = "call"
    /\ wr_pc' = "written"
    /\ wr_fmt' = "json"
    /\ wr_timing' = <<>>
    /\ wr_out' = [lines |-> <<>>, items |-> write_json(wr_items), rows |-> <<>>]
    /\ wr_items' = ItemsAfterWrite(wr_items, [i \in 1..Len(wr_items) |-> CueTiming(wr_items, i)])
    /\ UNCHANGED <<wr_back, notWr>>

write_csv_call ==
    /\ wr_pc = "call"
    /\ wr_pc' = "written"
    /\ wr_fmt' = "csv"
    /\ wr_timing' = <<>>
    /\ wr_out' = [lines |-> <<>>, items |-> <<>>, rows |-> write_csv(wr_items)]
    /\ wr_items' = ItemsAfterWrite(wr_items, [i \in 1..Len(wr_items) |-> CueTiming(wr_items, i)])
    /\ UNCHANGED <<wr_back, notWr>>

write_docx_call ==
    /\ wr_pc = "call"
    /\ wr_pc' = "written"
    /\ wr_fmt' = "docx"
    /\ wr_timing' = <<>>
    /\ wr_out' = [lines |-> <<>>, items |-> <<>>, rows |-> write_docx(wr_items)]
    /\ wr_items' = ItemsAfterWrite(wr_items, [i \in 1..Len(wr_items) |-> CueTiming(wr_items, i)])
    /\ UNCHANGED <<wr_back, notWr>>

write_pdf_call ==
    /\ wr_pc = "call"
    /\ wr_pc' = "written"
    /\ wr_fmt' = "pdf"
    /\ wr_timing' = <<>>
    /\ wr_out' = [lines |-> <<>>, items |-> <<>>, rows |-> write_pdf(wr_items)]
    /\ wr_items' = ItemsAfterWrite(wr_items, [i \in 1..Len(wr_items) |-> CueTiming(wr_items, i)])
    /\ UNCHANGED <<wr_back, notWr>>

\* the written file is parsed by the reader of its format
read_back ==
    /\ wr_pc = "written"
    /\ wr_fmt \in {"srt", "vtt", "json"}
    /\ wr_pc' = "read"
    /\ wr_back' = IF wr_fmt = "json" THEN ReadJson(wr_out.items)
                  ELSE ReadSubtitleLines(wr_out.lines, wr_fmt)
    /\ UNCHANGED <<wr_items, wr_fmt, wr_timing, wr_out, notWr>>

NextWriters ==
    \/ write_srt_call \/ write_vtt_call \/ write_txt_call \/ write_json_call
    \/ write_csv_call \/ write_docx_call \/ write_pdf_call \/ read_back

SpecWriters == WrInit /\ [][NextWriters]_vars

WrKnownStart(i) == wr_items[i].start # NULL
WrNextStartKnown(i) == i < Len(wr_items) /\ wr_items[i + 1].start # NULL
WrTimed == wr_pc # "call" /\ wr_fmt \in {"srt", "vtt"}

WrAllTimingNull ==
    \A i \in 1..Len(wr_items) : wr_items[i].start = NULL /\ wr_items[i].duration = NULL

\* C14: when no cue has a start or a duration, write_srt and write_vtt give
\* the cue at 0-based position i the start 2*i s and the end 2*i + 2 s; the
\* written starts are 0, 2, 4, ... and never decrease.
C14_SyntheticTimeline ==
    (WrTimed /\ WrAllTimingNull) =>
        /\ \A i \in 1..Len(wr_items) :
              /\ wr_timing[i].start = 2000 * (i - 1)
              /\ wr_timing[i].end = (2000 * (i - 1)) + 2000
              /\ wr_out.lines[IF wr_fmt = "srt" THEN (4 * i) - 2 ELSE 3 * i].a.ss = (2 * (i - 1)) % 60
        /\ \A i \in 1..(Len(wr_items) - 1) : wr_timing[i].start <= wr_timing[i + 1].start

\* three cues without timing were written at 0, 2 and 4 seconds
C14_Witness ==
    /\ WrTimed /\ WrAllTimingNull /\ Len(wr_items) = 3
    /\ wr_timing[1].start = 0 /\ wr_timing[2].start = 2000 /\ wr_timing[3].start = 4000

\* C15: a cue with a known start, no duration and no known next start is
\* written with end = start + 2.0 s; a cue whose duration is known keeps
\* end = start + duration (the start being the one written).
C15_DefaultDuration ==
    WrTimed =>
        \A i \in 1..Len(wr_items) :
            /\ (WrKnownStart(i) /\ wr_items[i].duration = NULL /\ ~WrNextStartKnown(i))
                  => wr_timing[i].end = wr_items[i].start + 2000
            /\ wr_items[i].duration # NULL
                  => wr_timing[i].end = wr_timing[i].start + wr_items[i].duration

\* the part of C15 that holds: the default for a known start, and the known
\* duration of a cue that has a start or a duration other than zero
C15_DefaultDurationWithStart ==
    WrTimed =>
        \A i \in 1..Len(wr_items) :
            /\ (WrKnownStart(i) /\ wr_items[i].duration = NULL /\ ~WrNextStartKnown(i))
                  => wr_timing[i].end = wr_items[i].start + 2000
            /\ (wr_items[i].duration # NULL /\ (WrKnownStart(i) \/ wr_items[i].duration # 0))
                  => wr_timing[i].end = wr_timing[i].start + wr_items[i].duration

\* C17: writing cues with write_srt, write_vtt or write_json and parsing the
\* file with the reader of the format gives as many cues, with the same
\* texts in the same order.
C17_RoundTripTexts ==
    wr_pc = "read" =>
        /\ Len(wr_back) = Len(wr_items)
        /\ \A i \in 1..Len(wr_items) : wr_back[i].text = TextToks(wr_items[i].text)

\* the part of C17 that holds: JSON files, and SRT and VTT files of cues
\* that have a text and no speaker
C17_RoundTripPlainCues ==
    (/\ wr_pc = "read"
     /\ wr_fmt # "json" => \A i \in 1..Len(wr_items) :
                               wr_items[i].text # NULL /\ wr_items[i].speaker = NULL) =>
        /\ Len(wr_back) = Len(wr_items)
        /\ \A i \in 1..Len(wr_items) : wr_back[i].text = TextToks(wr_items[i].text)

\* the body line of a cue: 'speaker: text' with a speaker, else 'text'
WrBody(i) ==
    IF wr_items[i].speaker # NULL
    THEN <<wr_items[i].speaker, ColonTok>> \o TextToks(wr_items[i].text)
    ELSE TextToks(wr_items[i].text)

\* C18: every writer emits one record per cue in the order of the cues: SRT
\* block k has index k, a VTT file starts with WEBVTT and a blank line, and
\* the body line of a block is 'speaker: text' or 'text'.
C18_OneRecordPerCue ==
    wr_pc # "call" =>
        LET n == Len(wr_items) IN
        /\ wr_fmt = "srt" =>
              /\ Len(wr_out.lines) = 4 * n
              /\ \A k \in 1..n :
                    /\ wr_out.lines[(4 * k) - 3].t = "index" /\ wr_out.lines[(4 * k) - 3].n = k
                    /\ wr_out.lines[(4 * k) - 2].t = "timing"
                    /\ wr_out.lines[(4 * k) - 1].toks = WrBody(k)
                    /\ wr_out.lines[4 * k].t = "blank"
        /\ wr_fmt = "vtt" =>
              /\ Len(wr_out.lines) = 2 + (3 * n)
              /\ wr_out.lines[1].t = "header" /\ wr_out.lines[2].t = "blank"
              /\ \A k \in 1..n :
                    /\ wr_out.lines[3 * k].t = "timing"
                    /\ wr_out.lines[(3 * k) + 1].toks = WrBody(k)
                    /\ wr_out.lines[(3 * k) + 2].t = "blank"
        /\ wr_fmt = "txt" =>
              /\ Len(wr_out.lines) = n + 1
              /\ \A k \in 1..n :
                    LET toks == wr_out.lines[k].toks IN
                    SubSeq(toks, Len(toks) - Len(TextToks(wr_items[k].text)) + 1, Len(toks))
                        = TextToks(wr_items[k].text)
        /\ wr_fmt = "json" => wr_out.items = wr_items
        /\ wr_fmt = "csv" =>
              /\ Len(wr_out.rows) = n + 1
              /\ \A k \in 1..n : wr_out.rows[k + 1].text = wr_items[k].text
        /\ wr_fmt \in {"docx", "pdf"} =>
              /\ Len(wr_out.rows) = n
              /\ \A k \in 1..n : wr_out.rows[k].text = TextToks(wr_items[k].text)

\* an SRT file of three blocks, the second with a speaker
C18_Witness ==
    /\ wr_pc = "written" /\ wr_fmt = "srt" /\ Len(wr_items) = 3
    /\ wr_items[2].speaker = 7
    /\ wr_out.lines[5].n = 2 /\ wr_out.lines[9].n = 3
    /\ wr_out.lines[7].toks = <<7, ColonTok, 2>>

\* ------------------------------------------------------------------------
\* save_output of download_transcript_formats, download_transcript_formats_batch
\* and download_transcript_json, and process_row
\* ------------------------------------------------------------------------
\* A format name is the sequence of its characters.
FmtTxt == <<"t", "x", "t">>
FmtJson == <<"j", "s", "o", "n">>
FmtSrt == <<"s", "r", "t">>
FmtVtt == <<"v", "t", "t">>
FmtCsv == <<"c", "s", "v">>
FmtDocx == <<"d", "o", "c", "x">>
FmtPdf == <<"p", "d", "f">>

\* the names save_output and process_row test for
SupportedFormats == {FmtTxt, FmtJson, FmtSrt, FmtVtt, FmtCsv, FmtDocx, FmtPdf}

\* the format names given by callers
FormatNames ==
    SupportedFormats \cup
    {<<>>, <<"x", "m", "l">>, <<"T", "X", "T">>, <<"V", "t", "t">>, <<"X", "M", "L">>,
     <<"t", "x", "t", "2">>}

\* str.lower() on the characters used
LowerChar(c) ==
    CASE c = "T" -> "t" [] c = "X" -> "x" [] c = "V" -> "v" [] c = "M" -> "m" [] c = "L" -> "l"
      [] OTHER -> c

Lower(s) == [i \in 1..Len(s) |-> LowerChar(s[i])]

IsSupported_any(fmt) == TRUE

\* the chain of "if fmt == ..." of save_output, the "fmt not in (...)" of process_row
IsSupported(fmt) == fmt \in SupportedFormats

\* no custom path, no output file name
NoPath == [name |-> "", ext |-> <<>>]

\* out_path: the custom path if given, else f"{vid}_transcript.{fmt}"
OutPath(fmt, custom_path) ==
    IF custom_path # NoPath THEN custom_path
    ELSE [name |-> "vid_transcript", ext |-> fmt]

\* save_output of download_transcript_formats and of the batch module:
\* the files written and the outcome
save_output(fmt, custom_path) ==
    IF IsSupported(Lower(fmt))
    THEN [files |-> {OutPath(fmt, custom_path)}, result |-> "path"]
    ELSE [files |-> {}, result |-> "ValueError"]

\* save_output of download_transcript_json: txt and json, as given
json_save_output(fmt, custom_path) ==
    IF fmt = FmtTxt \/ fmt = FmtJson
    THEN [files |-> {OutPath(fmt, custom_path)}, result |-> "path"]
    ELSE [files |-> {}, result |-> "ValueError"]

\* fmt = (fmt or "json").lower()
RowFormat(fmt) == Lower(IF fmt = <<>> THEN FmtJson ELSE fmt)

\* the file name of process_row: the output file name made to end with
\* "." + fmt, or f"{vid}_transcript.{fmt}"
RowPath(fmt, outputfile) ==
    IF outputfile # NoPath THEN [name |-> outputfile.name, ext |-> fmt]
    ELSE [name |-> "vid_transcript", ext |-> fmt]

SoInit ==
    /\ so_pc = "call" /\ so_fn = "none"
    /\ so_fmt \in FormatNames
    /\ so_path \in {NoPath, [name |-> "out", ext |-> <<>>]}
    /\ so_dl \in {"cues", "raise"}
    /\ so_fetched = FALSE /\ so_files = {} /\ so_result = "none"
    /\ IdleExcept("so")

formats_save_output_call ==
    /\ so_pc = "call"
    /\ so_pc' = "done"
    /\ so_fn' = "formats.save_output"
    /\ so_files' = save_output(so_fmt, so_path).files
    /\ so_result' = save_output(so_fmt, so_path).result
    /\ UNCHANGED <<so_fmt, so_path, so_dl, so_fetched, notSo>>

batch_save_output_call ==
    /\ so_pc = "call"
    /\ so_pc' = "done"
    /\ so_fn' = "batch.save_output"
    /\ so_files' = save_output(so_fmt, so_path).files
    /\ so_result' = save_output(so_fmt, so_path).result
    /\ UNCHANGED <<so_fmt, so_path, so_dl, so_fetched, notSo>>

json_save_output_call ==
    /\ so_pc = "call"
    /\ so_pc' = "done"
    /\ so_fn' = "json.save_output"
    /\ so_files' = json_save_output(so_fmt, so_path).files
    /\ so_result' = json_save_output(so_fmt, so_path).result
    /\ UNCHANGED <<so_fmt, so_path, so_dl, so_fetched, notSo>>

process_row ==
    /\ so_pc = "call"
    /\ so_pc' = "done"
    /\ so_fn' = "process_row"
    /\ IF ~IsSupported(RowFormat(so_fmt))
       THEN so_fetched' = FALSE /\ so_files' = {} /\ so_result' = "not_ok"
       ELSE /\ so_fetched' = TRUE
            /\ IF so_dl = "raise"
               THEN so_files' = {} /\ so_result' = "not_ok"
               ELSE /\ so_files' =
                         save_output(RowFormat(so_fmt), RowPath(RowFormat(so_fmt), so_path)).files
                    /\ so_result' = "ok"
    /\ UNCHANGED <<so_fmt, so_path, so_dl, notSo>>

NextSave ==
    formats_save_output_call \/ batch_save_output_call \/ json_save_output_call \/ process_row

SpecSave == SoInit /\ [][NextSave]_vars

\* the call failed as for an unsupported format, and left the files alone
SoRefused ==
    /\ so_files = {}
    /\ IF so_fn = "process_row" THEN so_result = "not_ok" /\ ~so_fetched
       ELSE so_result = "ValueError"

SoSevenNames ==
    {<<"t", "x", "t">>, <<"j", "s", "o", "n">>, <<"s", "r", "t">>, <<"v", "t", "t">>,
     <<"c", "s", "v">>, <<"d", "o", "c", "x">>, <<"p", "d", "f">>}

SoLowered(s) ==
    [i \in 1..Len(s) |->
        IF s[i] = "T" THEN "t" ELSE IF s[i] = "X" THEN "x" ELSE IF s[i] = "V" THEN "v"
        ELSE IF s[i] = "M" THEN "m" ELSE IF s[i] = "L" THEN "l" ELSE s[i]]

NzFiveKeys == {"text", "start", "duration", "speaker", "confidence"}

\* C20: normalize_transcript_obj on a list or tuple returns one cue per item
\* in the order of the items; each cue has the five keys, with the value of
\* the item's field where the item has it and null where it has not; the
\* call leaves its argument as it was.
C20_ListItemsCopied ==
    /\ [](  (nz_pc = "done" /\ nz_obj.kind = "list") =>
               /\ nz_res.ok
               /\ Len(nz_res.cues) = Len(nz_obj.items)
               /\ \A i \in 1..Len(nz_obj.items) :
                     /\ DOMAIN nz_res.cues[i] = NzFiveKeys
                     /\ \A k \in NzFiveKeys :
                           nz_res.cues[i][k] =
                              IF k \in DOMAIN nz_obj.items[i] THEN nz_obj.items[i][k] ELSE NULL)
    /\ [][nz_obj' = nz_obj]_vars

\* a list of an item with all five fields and an item with text and start
C20_Witness ==
    /\ nz_pc = "done"
    /\ nz_obj = ListObj(<<RawItemC, RawItemB>>)
    /\ nz_res.cues = <<Cue(3, 3000, 500, 7, 90), Cue(2, 2000, NULL, NULL, NULL)>>

\* ------------------------------------------------------------------------
\* normalize_transcript_obj when no strategy yields cues
\* ------------------------------------------------------------------------
\* C21: when the argument is not a list or tuple, iterating it gives
\* nothing, and every accessor is absent, raises or yields nothing usable
\* (a non-empty cue sequence), normalize_transcript_obj raises.
C21_RaisesWithoutUsableStrategy ==
    (/\ nz_pc = "done"
     /\ IsOpaque(nz_obj)
     /\ \A i \in 1..Len(nz_obj.acc) : ~Usable(nz_obj, i)) => ~nz_res.ok

\* the part of C21 that holds: it raises when every accessor is absent,
\* raises, or yields a value whose normalization raises
C21_RaisesWhenEveryAccessorFails ==
    (/\ nz_pc = "done"
     /\ IsOpaque(nz_obj)
     /\ \A i \in 1..Len(nz_obj.acc) :
           nz_obj.acc[i].st = "value" => ~normalize_transcript_obj(nz_obj.acc[i].val).ok)
        => ~nz_res.ok

\* ------------------------------------------------------------------------
\* the error a failure of download_transcript carries
\* ------------------------------------------------------------------------
\* the error whose description the raised exception holds: the exception
\* itself, or fetch_error inside "Failed to retrieve transcript. Last error: ..."
FdCarried == IF fd_result.err = RetrievalErr THEN fd_fetchError ELSE fd_result.err

\* the last error of the attempt: the one the fallback raised, else the one
\* of the import or of the structured retrieval (NoErr: there was none)
FdLastObserved ==
    IF fd_fallback.t = "raise" THEN (IF fd_urlValid THEN FallbackErr ELSE InvalidUrlErr)
    ELSE fd_structured.err

\* C22: every failure of download_transcript carries the description of the
\* last underlying error of the attempt.
C22_FailureCarriesLastError ==
    (fd_pc = "done" /\ fd_result.kind = "raise") =>
        /\ FdCarried # NoErr
        /\ FdCarried = FdLastObserved

\* the part of C22 that holds: when the import, the structured retrieval or
\* the fallback raised, the failure carries the last of these errors
C22_CarriesLastRaisedError ==
    (fd_pc = "done" /\ fd_result.kind = "raise" /\ FdLastObserved # NoErr) =>
        FdCarried = FdLastObserved

\* ------------------------------------------------------------------------
\* download_transcript_formats_batch: run_batch over the rows of a CSV file
\* (batch_transcript of flask_transcript_api runs the same loop)
\* ------------------------------------------------------------------------
\* a row, with what its processing meets: whether extract_video_id accepts
\* the URL, whether download_transcript gives cues, whether the writer works
Row(url, fmt, dl, write) == [url |-> url, fmt |-> fmt, dl |-> dl, write |-> write]

BatchRows ==
    {Row("valid", FmtJson, "cues", "ok"), Row("valid", <<>>, "cues", "ok"),
     Row("invalid", FmtSrt, "raise", "ok"), Row("valid", <<"x", "m", "l">>, "cues", "ok"),
     Row("valid", FmtTxt, "raise", "ok"), Row("valid", FmtDocx, "cues", "raise")}

BatchFiles == UNION {[1..n -> BatchRows] : n \in 0..MaxRows}

RowResult(ok, raised, steps) == [ok |-> ok, raised |-> raised, steps |-> steps]

RowExcept_reraise(steps) == RowResult(FALSE, TRUE, steps)

\* except Exception as e: return {"ok": False, ...}
RowExcept(steps) == RowResult(FALSE, FALSE, steps)

\* process_row on a row: the result and the steps taken
ProcessRow(row) ==
    IF ~IsSupported(RowFormat(row.fmt)) THEN RowResult(FALSE, FALSE, <<>>)
    ELSE IF row.dl = "raise" \/ row.url = "invalid" THEN RowExcept(<<"fetch">>)
    ELSE IF row.write = "raise" THEN RowExcept(<<"fetch", "write">>)
    ELSE RowResult(TRUE, FALSE, <<"fetch", "write">>)

RECURSIVE CountOk(_)
\* sum(1 for r in results if r.get("ok"))
CountOk(results) ==
    IF results = <<>> THEN 0
    ELSE (IF Head(results).ok THEN 1 ELSE 0) + CountOk(Tail(results))

RbInit ==
    /\ rb_pc = "rows" /\ rb_rows \in BatchFiles /\ rb_next = 1 /\ rb_results = <<>>
    /\ rb_log = <<>> /\ rb_ok = 0 /\ rb_err = 0
    /\ IdleExcept("rb")

\* one iteration of "for row in reader"
run_batch_row ==
    /\ rb_pc = "rows"
    /\ rb_next <= Len(rb_rows)
    /\ LET res == ProcessRow(rb_rows[rb_next]) IN
       /\ rb_log' = rb_log \o [k \in 1..Len(res.steps) |-> [row |-> rb_next, step |-> res.steps[k]]]
       /\ IF res.raised
          THEN rb_pc' = "raised" /\ UNCHANGED <<rb_results, rb_next>>
          ELSE /\ rb_pc' = "rows"
               /\ rb_results' = Append(rb_results, [row |-> rb_next, ok |-> res.ok])
               /\ rb_next' = rb_next + 1
    /\ UNCHANGED <<rb_rows, rb_ok, rb_err, notRb>>

\* after the loop: the report, and the counts the caller prints
run_batch_return ==
    /\ rb_pc = "rows"
    /\ rb_next > Len(rb_rows)
    /\ rb_pc' = "done"
    /\ rb_ok' = CountOk(rb_results)
    /\ rb_err' = Len(rb_results) - CountOk(rb_results)
    /\ UNCHANGED <<rb_rows, rb_next, rb_results, rb_log, notRb>>

NextBatch == run_batch_row \/ run_batch_return

SpecBatch == RbInit /\ [][NextBatch]_vars

\* what the row meets lets it succeed
RbRowCanSucceed(r) ==
    /\ r.url = "valid" /\ r.dl = "cues" /\ r.write = "ok"
    /\ r.fmt \in {<<>>, <<"j", "s", "o", "n">>, <<"s", "r", "t">>, <<"t", "x", "t">>,
                  <<"d", "o", "c", "x">>}

\* C23: run_batch handles the rows one after another and never raises for
\* a row: its results are one per row in row order, a failing row gives
\* ok=False and the rows after it are processed, the fetch and write of a
\* row come after those of the rows before it, and OK + ERR is the number
\* of rows.
C23_OneResultPerRow ==
    /\ rb_pc # "raised"
    /\ \A k \in 1..Len(rb_results) :
          rb_results[k].row = k /\ (rb_results[k].ok <=> RbRowCanSucceed(rb_rows[k]))
    /\ \A a \in 1..Len(rb_log), b \in 1..Len(rb_log) : a < b => rb_log[a].row <= rb_log[b].row
    /\ rb_pc = "done" =>
          /\ Len(rb_results) = Len(rb_rows)
          /\ rb_ok + rb_err = Len(rb_rows)
          /\ rb_ok = Cardinality({k \in 1..Len(rb_rows) : RbRowCanSucceed(rb_rows[k])})

\* a batch of three rows whose second row failed in the fetch
C23_Witness ==
    /\ rb_pc = "done" /\ Len(rb_rows) = 3
    /\ rb_rows[2].dl = "raise"
    /\ ~rb_results[2].ok /\ rb_results[1].ok /\ rb_results[3].ok
    /\ rb_ok = 2 /\ rb_err = 1

\* ------------------------------------------------------------------------
\* simple_api_caller_async_download.call_brightdata_and_poll
\* ------------------------------------------------------------------------
\* a JSON list whose first item announces a snapshot id
SnapList == Line("list", "running", FALSE, TRUE, 0)

\* the lines of a submit response
CbLines == Lines \cup {SnapList}
CbBodies == UNION {[1..n -> CbLines] : n \in 1..MaxLines}
CbResponses == {[exc |-> TRUE, body |-> <<>>]} \cup {[exc |-> FALSE, body |-> b] : b \in CbBodies}

\* result: the document json.loads gives, or the list of the lines that
\* parse ("lines"), or nothing that parses ("none")
CbParse(body) ==
    LET nonBlank == SelectSeqOf(body, CbLines \ {BlankLine})
        parsed == SelectSeqOf(body, CbLines \ {BlankLine, GarbageLine})
    IN  IF Len(nonBlank) = 1 /\ nonBlank[1].t # "garbage"
        THEN [t |-> nonBlank[1].t, doc |-> nonBlank[1], items |-> <<>>]
        ELSE IF parsed = <<>> THEN [t |-> "none", doc |-> BlankLine, items |-> <<>>]
        ELSE [t |-> "lines", doc |-> BlankLine, items |-> parsed]

\* the search for snapshot_id: "found", "absent", or "raise" when
\* 'snapshot_id' in result[0] is applied to a number
CbSnapshot(result) ==
    IF result.t = "lines"
    THEN IF result.items[1].t = "scalar" THEN "raise"
         ELSE IF result.items[1].t = "dict" /\ result.items[1].sid THEN "found"
         ELSE "absent"
    ELSE IF result.t \in {"list", "dict"} /\ result.doc.sid THEN "found"
    ELSE "absent"

CbRet(ok, kind, sid) == [ok |-> ok, kind |-> kind, sid |-> sid]

\* what poll_until_ready(snapshot_id, max_wait_minutes=30) returns
CbPollOutcomes == {Ret(TRUE, "doc", <<>>), Ret(FALSE, "failed", <<>>), Ret(FALSE, "timeout", <<>>)}

\* the logger.info line with result.get('status', ...): a list has no get
CbStatusLogged(result) == result.t = "dict"

CbInit ==
    /\ cb_pc = "call" /\ cb_resp \in CbResponses /\ cb_polled = FALSE
    /\ cb_ret = CbRet(FALSE, "none", FALSE)
    /\ IdleExcept("cb")

\* the whole function, for the outcome polling would have
call_brightdata_and_poll(poll) ==
    /\ cb_pc = "call"
    /\ cb_pc' = "done"
    /\ UNCHANGED <<cb_resp, notCb>>
    /\ IF cb_resp.exc
       THEN cb_polled' = FALSE /\ cb_ret' = CbRet(FALSE, "error", FALSE)
       ELSE LET result == CbParse(cb_resp.body) IN
            IF result.t = "none"
            THEN cb_polled' = FALSE /\ cb_ret' = CbRet(FALSE, "parse", FALSE)
            ELSE IF CbSnapshot(result) = "raise"
            THEN cb_polled' = FALSE /\ cb_ret' = CbRet(FALSE, "error", FALSE)
            ELSE IF CbSnapshot(result) = "found"
            THEN IF CbStatusLogged(result)
                 THEN cb_polled' = TRUE /\ cb_ret' = CbRet(poll.ok, poll.kind, TRUE)
                 ELSE cb_polled' = FALSE /\ cb_ret' = CbRet(FALSE, "error", FALSE)
            ELSE cb_polled' = FALSE /\ cb_ret' = CbRet(TRUE, "immediate", FALSE)

NextBrightData == \E poll \in CbPollOutcomes : call_brightdata_and_poll(poll)

SpecBrightData == CbInit /\ [][NextBrightData]_vars

\* the first item of the submit response when it is a list
CbFirstItem ==
    LET parsed == SelectSeqOf(cb_resp.body, CbLines \ {BlankLine, GarbageLine}) IN
    IF parsed = <<>> THEN BlankLine ELSE parsed[1]

\* the submit response is one JSON object with the key snapshot_id
CbSnapshotInObject ==
    /\ ~cb_resp.exc
    /\ Len(SelectSeqOf(cb_resp.body, CbLines \ {BlankLine})) = 1
    /\ CbFirstItem.t = "dict" /\ CbFirstItem.sid

\* the submit response is a list whose first item has the key snapshot_id:
\* one JSON list, or lines of JSON the first of which is such an object
CbSnapshotInList ==
    /\ ~cb_resp.exc
    /\ \/ /\ Len(SelectSeqOf(cb_resp.body, CbLines \ {BlankLine})) = 1
          /\ CbFirstItem.t = "list" /\ CbFirstItem.sid
       \/ /\ Len(SelectSeqOf(cb_resp.body, CbLines \ {BlankLine})) > 1
          /\ CbFirstItem.t = "dict" /\ CbFirstItem.sid

\* C24: when the submit response carries a snapshot_id, as a key of a JSON
\* object or in the first item of a list, call_brightdata_and_poll polls
\* the snapshot and returns the outcome of the polling with the snapshot
\* id; it returns immediate results only when there is no snapshot_id.
C24_PollsWhenSnapshotId ==
    cb_pc = "done" =>
        /\ (CbSnapshotInObject \/ CbSnapshotInList) =>
              cb_polled /\ cb_ret.sid /\ cb_ret.kind \in {"doc", "failed", "timeout"}
        /\ cb_ret.kind = "immediate" => ~(CbSnapshotInObject \/ CbSnapshotInList)

\* the part of C24 that holds: a JSON object with snapshot_id is polled, and
\* immediate results are returned only without a snapshot_id
C24_PollsWhenSnapshotIdInObject ==
    cb_pc = "done" =>
        /\ CbSnapshotInObject =>
              cb_polled /\ cb_ret.sid /\ cb_ret.kind \in {"doc", "failed", "timeout"}
        /\ cb_ret.kind = "immediate" => ~(CbSnapshotInObject \/ CbSnapshotInList)

\* ------------------------------------------------------------------------
\* the retry budget of flask_transcript_api.download_transcript
\* ------------------------------------------------------------------------
\* the number of calls of the library made so far (a fetch retried without
\* languages= belongs to the attempt of the fetch before it)
FlStructuredAttempts ==
    Cardinality({i \in 1..Len(fl_calls) : fl_calls[i] \in {"static", "fetch_lang"}})

\* C25: download_transcript makes at most max_retries attempts of the
\* structured retrieval, sleeps only between attempts (every sleep is
\* followed by another attempt), and ends by returning cues or raising.
C25_BoundedRetries ==
    /\ Len(fl_events) <= fl_maxRetries
    /\ FlStructuredAttempts <= fl_maxRetries
    /\ fl_pc = "done" =>
          /\ fl_result.kind \in {"cues", "raise"}
          /\ \A i \in 1..Len(fl_sleeps) : fl_sleeps[i] + 1 < Len(fl_events)

\* the part of C25 that holds: the number of attempts, and the end
C25_AtMostMaxRetriesAttempts ==
    /\ Len(fl_events) <= fl_maxRetries
    /\ FlStructuredAttempts <= fl_maxRetries
    /\ Len(fl_sleeps) <= Len(fl_events)
    /\ fl_pc = "done" => fl_result.kind \in {"cues", "raise"}
    /\ fl_pc # "done" => ENABLED NextFlask

\* ------------------------------------------------------------------------
\* the precedence of the patterns of the subtitle parser
\* ------------------------------------------------------------------------
SpIsVtt(b) == b.kind = "vtt"
SpIsSrt(b) == b.kind = "srt"

\* the cues are those of the blocks given, in order, with the timing the
\* blocks spell (timed) or without timing
SpCuesOf(blocks, timed) ==
    /\ Len(sp_cues) = Len(blocks)
    /\ \A i \in 1..Len(blocks) :
          /\ sp_cues[i].text = blocks[i].text
          /\ sp_cues[i].start = (IF timed THEN blocks[i].startMs ELSE NULL)
          /\ timed => sp_cues[i].duration = blocks[i].endMs - blocks[i].startMs
          /\ ~timed => sp_cues[i].duration = NULL

\* C26: the parser returns the cues of the WebVTT pattern alone when it
\* matches at least once, else those of the SRT pattern alone when it
\* matches at least once, else one text-only cue with null start and
\* duration per block; speaker and confidence are null on every cue.
C26_PatternPrecedence ==
    sp_pc = "done" =>
        /\ IF SelectSeq(sp_data, SpIsVtt) # <<>> THEN SpCuesOf(SelectSeq(sp_data, SpIsVtt), TRUE)
           ELSE IF SelectSeq(sp_data, SpIsSrt) # <<>> THEN SpCuesOf(SelectSeq(sp_data, SpIsSrt), TRUE)
           ELSE SpCuesOf(sp_data, FALSE)
        /\ \A i \in 1..Len(sp_cues) : sp_cues[i].speaker = NULL /\ sp_cues[i].confidence = NULL

\* a file with an SRT block before a WebVTT block gave the WebVTT cue alone
C26_Witness ==
    /\ sp_pc = "done"
    /\ sp_data = <<Block("srt", 0, 1500, 1), Block("vtt", 1500, 3000, 2)>>
    /\ sp_cues = <<Cue(2, 1500, 1500, NULL, NULL)>>

\* ------------------------------------------------------------------------
\* the times write_srt and write_vtt put on a cue
\* ------------------------------------------------------------------------
\* C27: every cue written by write_srt or write_vtt has a start and an end
\* that are not null, with end >= start, whatever the timing of the cues.
C27_EndNotBeforeStart ==
    WrTimed =>
        \A i \in 1..Len(wr_items) :
            /\ wr_timing[i].start # NULL /\ wr_timing[i].end # NULL
            /\ wr_timing[i].end >= wr_timing[i].start

\* the part of C27 that holds: start and end are never null, and the end is
\* not before the start unless the cue has a negative duration or has no
\* duration and a next cue that starts before it
C27_TimesNotNull ==
    WrTimed =>
        \A i \in 1..Len(wr_items) :
            /\ wr_timing[i].start # NULL /\ wr_timing[i].end # NULL
            /\ (IF wr_items[i].duration # NULL THEN wr_items[i].duration >= 0
                ELSE ~(WrKnownStart(i) /\ WrNextStartKnown(i)
                       /\ wr_items[i + 1].start < wr_items[i].start))
                  => wr_timing[i].end >= wr_timing[i].start

\* ------------------------------------------------------------------------
\* flask_transcript_api: two requests of /api/batch, /api/playlist or
\* /api/channel served at the same time (one thread per request)
\* ------------------------------------------------------------------------
Requests == {1, 2}
RequestKinds == {"batch", "playlist", "channel"}

\* batch_id = f"batch_{int(time.time())}" (playlist_, channel_): the name of
\* the output directory and, with ".zip", of the zip file
DirName(kind, t) == [kind |-> kind, t |-> t]

\* the name of the directory of request r
DirOf(r) == DirName(cq_kind[r], cq_id[r])

CqInit ==
    /\ cq_pc = [r \in Requests |-> "start"] /\ cq_kind \in [Requests -> RequestKinds]
    /\ cq_id = [r \in Requests |-> 0] /\ cq_clock = 0
    /\ cq_dirs = {} /\ cq_files = {} /\ cq_zips = {} /\ cq_removed = {}
    /\ IdleExcept("cq")

\* a second passes
clock_tick ==
    /\ cq_clock < MaxClock
    /\ cq_clock' = cq_clock + 1
    /\ UNCHANGED <<cq_pc, cq_kind, cq_id, cq_dirs, cq_files, cq_zips, cq_removed, notCq>>

\* os.makedirs(outdir, exist_ok=True) with the id taken from the clock
make_outdir(r) ==
    /\ cq_pc[r] = "start"
    /\ cq_pc' = [cq_pc EXCEPT ![r] = "made"]
    /\ cq_id' = [cq_id EXCEPT ![r] = cq_clock]
    /\ cq_dirs' = cq_dirs \cup {DirName(cq_kind[r], cq_clock)}
    /\ UNCHANGED <<cq_kind, cq_clock, cq_files, cq_zips, cq_removed, notCq>>

\* the loop over the rows or videos: process_row writes into outdir; when
\* the directory is gone the write fails and the row is ok=False
write_outputs(r) ==
    /\ cq_pc[r] = "made"
    /\ cq_pc' = [cq_pc EXCEPT ![r] = "written"]
    /\ cq_files' = IF DirOf(r) \in cq_dirs
                   THEN cq_files \cup {[dir |-> DirOf(r), owner |-> r]}
                   ELSE cq_files
    /\ UNCHANGED <<cq_kind, cq_id, cq_clock, cq_dirs, cq_zips, cq_removed, notCq>>

\* the zip file is opened for writing and gets every file os.listdir(outdir)
\* names; listdir raises when the directory is gone (answer 500)
zip_outdir(r) ==
    /\ cq_pc[r] = "written"
    /\ LET inDir == {f \in cq_files : f.dir = DirOf(r)}
           others == {z \in cq_zips : z.name # DirOf(r)}
       IN  IF DirOf(r) \in cq_dirs
           THEN /\ cq_zips' = others \cup {[name |-> DirOf(r), by |-> r, files |-> inDir]}
                /\ cq_pc' = [cq_pc EXCEPT ![r] = "zipped"]
           ELSE /\ cq_zips' = others \cup {[name |-> DirOf(r), by |-> r, files |-> {}]}
                /\ cq_pc' = [cq_pc EXCEPT ![r] = "failed"]
    /\ UNCHANGED <<cq_kind, cq_id, cq_clock, cq_dirs, cq_files, cq_removed, notCq>>

\* shutil.rmtree(outdir, ignore_errors=True), then the answer
remove_outdir(r) ==
    /\ cq_pc[r] = "zipped"
    /\ cq_pc' = [cq_pc EXCEPT ![r] = "done"]
    /\ cq_removed' = cq_removed \cup {[by |-> r, file |-> f] : f \in {g \in cq_files : g.dir = DirOf(r)}}
    /\ cq_files' = {f \in cq_files : f.dir # DirOf(r)}
    /\ cq_dirs' = cq_dirs \ {DirOf(r)}
    /\ UNCHANGED <<cq_kind, cq_id, cq_clock, cq_zips, notCq>>

NextConcurrent ==
    \/ clock_tick
    \/ \E r \in Requests : make_outdir(r)
    \/ \E r \in Requests : write_outputs(r)
    \/ \E r \in Requests : zip_outdir(r)
    \/ \E r \in Requests : remove_outdir(r)

SpecConcurrent == CqInit /\ [][NextConcurrent]_vars

CqStarted(r) == cq_pc[r] \notin {"idle", "start"}

\* C28: two requests served at the same time never share an output
\* directory or a zip file: the files a request zips and removes are its
\* own, also when both requests start within the same second.
C28_NoSharedOutputDirectory ==
    /\ (CqStarted(1) /\ CqStarted(2)) =>
          ~(cq_kind[1] = cq_kind[2] /\ cq_id[1] = cq_id[2])
    /\ \A z \in cq_zips : \A f \in z.files : f.owner = z.by
    /\ \A x \in cq_removed : x.file.owner = x.by

\* the part of C28 that holds: requests of different kinds, or that start
\* in different seconds, zip and remove only their own files
C28_NoSharingAcrossKindsOrSeconds ==
    (\A r \in Requests : CqStarted(r)) =>
        ((cq_kind[1] # cq_kind[2] \/ cq_id[1] # cq_id[2]) =>
            /\ \A z \in cq_zips : \A f \in z.files : f.owner = z.by
            /\ \A x \in cq_removed : x.file.owner = x.by)

\* ------------------------------------------------------------------------
\* yt_dlp_subtitle_fallback: the subtitle files it downloads and the one it
\* parses, over a sequence of invocations in one working directory
\* ------------------------------------------------------------------------
VideoIds == {1, 2}
Langs == {"en", "de"}

\* the file yt-dlp writes for out_base + ".%(ext)s": <vid>.subs.<lang>.vtt
SubFile(vid, lang, by) == [vid |-> vid, lang |-> lang, by |-> by]

\* candidates: the files whose name starts with f"{vid}.subs"
Candidates(files, vid) == {f \in files : f.vid = vid}

YfInit ==
    /\ yf_n = 0 /\ yf_files = {} /\ yf_req = [vid |-> 0, lang |-> "none"] /\ yf_parsed = {}
    /\ IdleExcept("yf")

\* one invocation: the download through the yt_dlp module (lib) or the
\* yt-dlp command, which works (ok) or raises; then the first candidate in
\* the order of os.listdir, which is arbitrary
yt_dlp_subtitle_fallback(vid, lang, lib, ok) ==
    /\ yf_n >= 0 /\ yf_n < MaxInvocations
    /\ yf_n' = yf_n + 1
    /\ yf_req' = [vid |-> vid, lang |-> lang]
    /\ LET written == IF ok THEN {SubFile(vid, lang, yf_n + 1)} ELSE {}
           files == {f \in yf_files : ~(ok /\ f.vid = vid /\ f.lang = lang)} \cup written
       IN  /\ yf_files' = files
           /\ IF ~lib /\ ~ok THEN yf_parsed' = {}
              ELSE IF Candidates(files, vid) = {} THEN yf_parsed' = {}
              ELSE \E c \in Candidates(files, vid) : yf_parsed' = {c}
    /\ UNCHANGED notYf

NextSubtitleFiles ==
    \E vid \in VideoIds, lang \in Langs, lib \in BOOLEAN, ok \in BOOLEAN :
        yt_dlp_subtitle_fallback(vid, lang, lib, ok)

SpecSubtitleFiles == YfInit /\ [][NextSubtitleFiles]_vars

\* C29: the file yt_dlp_subtitle_fallback parses was written by the same
\* invocation, for the video id and the language of the request; never a
\* file of an earlier invocation or of another video.
C29_ParsesOwnDownload ==
    \A f \in yf_parsed :
        f.by = yf_n /\ f.vid = yf_req.vid /\ f.lang = yf_req.lang

\* the part of C29 that holds: the file parsed has the video id of the
\* request
C29_ParsesFileOfSameVideo == \A f \in yf_parsed : f.vid = yf_req.vid

\* C30: no format writer changes the cue sequence it is given: after
\* write_txt, write_json, write_srt, write_vtt or write_csv the sequence has
\* the same length, order and field values as before, also where the writer
\* synthesized the timing of a cue.
C30_WritersLeaveCuesUnchanged ==
    [][(wr_pc = "call" /\ wr_pc' = "written"
            /\ wr_fmt' \in {"txt", "json", "srt", "vtt", "csv"})
        => (/\ Len(wr_items') = Len(wr_items)
            /\ \A i \in 1..Len(wr_items) : wr_items'[i] = wr_items[i])]_vars

\* a subtitle file was written from cues of which one had no start, so that
\* the writer synthesized its timing
C30_Witness ==
    /\ wr_pc = "written" /\ wr_fmt \in {"srt", "vtt"}
    /\ \E i \in 1..Len(wr_items) :
        /\ wr_items[i].start = NULL
        /\ wr_timing[i].start # NULL
        /\ wr_timing[i].end >= wr_timing[i].start

NextPoll ==
    \/ \E resp \in Responses : poll_until_ready_iter(resp)
    \/ poll_until_ready_exit

SpecPoll == PurInit /\ [][NextPoll]_vars

\* C3: poll_until_ready issues at most max_wait_minutes*2 status requests,
\* whatever the responses; a poll that used up its budget on a job that was
\* still non-terminal returns success = False; and the poll always ends:
\* every step of the loop either uses up one attempt of the budget or
\* returns, and the loop is never stuck before it has returned.
C3_PollBudget ==
    /\ [](pur_requests <= pur_maxWait * 2)
    /\ []((pur_pc = "done" /\ pur_requests = pur_maxWait * 2
            /\ pur_lastStatus \in {"none", "running", "absent", "exception"})
          => ~pur_ret.ok)
    /\ [][pur_pc = "polling" =>
            \/ pur_attempt' = pur_attempt + 1 /\ pur_attempt' <= pur_maxWait * 2
            \/ pur_pc' = "done"]_vars
    /\ [](pur_pc = "polling" => ENABLED NextPoll)

C3_Witness ==
    /\ pur_pc = "done" /\ pur_maxWait > 0 /\ pur_requests = pur_maxWait * 2
    /\ pur_lastStatus = "running" /\ pur_ret = Ret(FALSE, "timeout", <<>>)

====
